---- MODULE Spec2Model ----
(***************************************************************************)
(* Model of the land-cover legend / nesting / transition-matrix subsystem  *)
(* of te_schemas (src/te_schemas/land_cover.py).                           *)
(*                                                                         *)
(* Python values are modelled as follows.                                  *)
(*   LCClass      a record [code, name]; name stands for every attribute    *)
(*                other than code (name_short, name_long, description,      *)
(*                color): LCClass.update copies them, __eq__ compares them. *)
(*   Optional[X]  a sequence of length 0 (None) or 1.                       *)
(*   LCLegend     a record [key, nodata]: key a sequence of classes,        *)
(*                nodata an optional class.                                 *)
(*   dict         a sequence of [k, v] records in insertion order with      *)
(*                pairwise distinct k (Python dicts keep insertion order).  *)
(*   an exception the string naming it in the call record's "ret".          *)
(***************************************************************************)
EXTENDS Integers, Sequences, FiniteSets, TLC

VARIABLES
    legend,      \* the LCLegend object of the legend specifications
    lc_status,   \* "new" (fields assigned, __post_init__ not run), "ok", "error"
    lc_last,     \* record of the last call on the legend: [op, arg, ret]
    parent,      \* LCLegendNesting.parent
    child,       \* LCLegendNesting.child
    nesting,     \* LCLegendNesting.nesting, a dict parent code -> list of child codes
    n_status,    \* "new" (fields assigned, __post_init__ not run), "ok", "error"
    n_last,      \* record of the last call on the nesting: [op, arg, ret]
    n_calls,     \* number of mutating calls made on the nesting so far
    transitions, \* LCTransitionMatrixBase.transitions, a list of meanings
    m_last,      \* record of the last call on the matrix or definition: [op, arg, ret]
    m_calls,     \* number of changes made to the transitions list so far
    props,       \* ErrorRecodeProperties: [recode_deg_to, recode_stable_to, recode_imp_to]
    r_last,      \* record of the last lookup in the error-recode tables: [op, arg, ret]
    rf_value,    \* the value handed to a ResultsField: [isList, items]
    rf_last,     \* record of the last call on the ResultsField: [op, arg, ret]
    definitions, \* LCTransitionDefinitionBase.definitions: [kind, items]
    v_last       \* record of the last validation of a definition: [op, arg, ret]

legendVars == <<legend, lc_status, lc_last>>
nestingVars == <<parent, child, nesting, n_status, n_last, n_calls>>
matrixVars == <<transitions, m_last, m_calls>>
recodeVars == <<props, r_last>>
resultsVars == <<rf_value, rf_last>>
definitionsVars == <<definitions, v_last>>
\* the variables of the specifications that follow those of the matrix
otherVars == <<recodeVars, resultsVars, definitionsVars>>
vars == <<legend, lc_status, lc_last, parent, child, nesting, n_status, n_last, n_calls,
          transitions, m_last, m_calls, props, r_last, rf_value, rf_last,
          definitions, v_last>>

---------------------------------------------------------------------------
(* Bounds of the model *)

MaxCode == 3
MaxLen == 3
MaxClasses == 38
MaxStride == 3
MaxInitCode == 1
MaxNestCode == 2
MaxChildren == 2
MaxCalls == 2
MaxMatrixCode == 2
MaxEdits == 2
MaxDefClasses == 2
MaxResults == 2

\* the most named matrices in one definition
MaxMatrices == 2

\* the most classes of a legend asked for its persistence table
MaxTableClasses == 16

Codes == 1..MaxCode
Names == {"a", "b"}
Classes == [code : Codes, name : Names]

None == <<>>
Some(x) == <<x>>

\* Sequences over S of length at most n
SeqUpTo(S, n) == UNION {[1..k -> S] : k \in 0..n}

Range(s) == {s[i] : i \in 1..Len(s)}

\* classes a legend can carry as its nodata sentinel: none, a class whose code
\* is outside key's codes, and a class that also occurs in key's universe
NoDataOptions ==
    {None, Some([code |-> 0, name |-> "a"]), Some([code |-> 1, name |-> "a"])}

---------------------------------------------------------------------------
(* LCClass *)

\* an update that copies nothing
LCClass_update_nothing(self, other) == self

LCClass_update(self, other) == [self EXCEPT !.name = other.name]

---------------------------------------------------------------------------
(* LCLegend *)

CodesOf(s) == [i \in 1..Len(s) |-> s[i].code]

\* len(set(codes)) == len(codes)
AllDistinct(s) == Cardinality(Range(s)) = Len(s)

RECURSIVE InsertByCode(_, _)
\* insert class x into s (ascending by code) after every class whose code is <= x's
InsertByCode(x, s) ==
    IF s = <<>> THEN <<x>>
    ELSE IF x.code < s[1].code THEN <<x>> \o s
    ELSE <<s[1]>> \o InsertByCode(x, Tail(s))

RECURSIVE sorted_by_code(_)
\* sorted(key, key=lambda c: c.code): a stable ascending sort
sorted_by_code(s) ==
    IF s = <<>> THEN <<>>
    ELSE InsertByCode(s[Len(s)], sorted_by_code(SubSeq(s, 1, Len(s) - 1)))

RECURSIVE InsertInt(_, _)
InsertInt(x, s) ==
    IF s = <<>> THEN <<x>>
    ELSE IF x < s[1] THEN <<x>> \o s
    ELSE <<s[1]>> \o InsertInt(x, Tail(s))

RECURSIVE sorted_ints(_)
\* sorted(s) of a list of integers
sorted_ints(s) ==
    IF s = <<>> THEN <<>>
    ELSE InsertInt(s[Len(s)], sorted_ints(SubSeq(s, 1, Len(s) - 1)))

\* __post_init__ without the final sort of key
LCLegend_post_init_unsorted(self) ==
    [err |-> ~AllDistinct(CodesOf(self.key)), legend |-> self]

\* LCLegend.__post_init__: [err, legend]
LCLegend_post_init(self) ==
    IF ~AllDistinct(CodesOf(self.key))
    THEN [err |-> TRUE, legend |-> self]
    ELSE [err |-> FALSE, legend |-> [self EXCEPT !.key = sorted_by_code(self.key)]]

key_with_nodata(self) ==
    IF self.nodata # None THEN self.key \o self.nodata ELSE self.key

codes(self) == CodesOf(key_with_nodata(self))

\* class_by_attr("code", code): first class of key with that code, else None
class_by_attr_code(self, code) ==
    LET matches == SelectSeq(self.key, LAMBDA c : c.code = code)
    IN IF Len(matches) > 0 THEN Some(matches[1]) ELSE None

class_by_code(self, code) == class_by_attr_code(self, code)

contains_key(self, code) == class_by_code(self, code) # None

\* list.index(x): position of the first element equal to x (0 when absent)
IndexOf(s, x) ==
    IF \E i \in 1..Len(s) : s[i] = x
    THEN CHOOSE i \in 1..Len(s) : s[i] = x /\ \A j \in 1..(i - 1) : s[j] # x
    ELSE 0

\* 1-based position of lcc's code among the sorted codes of key
class_index(self, lcc) == IndexOf(sorted_ints(CodesOf(self.key)), lcc.code)

FirstIndexOfCode(key, code) == IndexOf(CodesOf(key), code)

RemoveAt(s, i) == SubSeq(s, 1, i - 1) \o SubSeq(s, i + 1, Len(s))

\* add_update_class that appends without looking the code up
LCLegend_add_update_class_append(self, lcc) ==
    [self EXCEPT !.key = Append(self.key, lcc)]

\* LCLegend.add_update_class: the legend afterwards
LCLegend_add_update_class(self, lcc) ==
    IF class_by_code(self, lcc.code) = None
    THEN [self EXCEPT !.key = Append(self.key, lcc)]
    ELSE LET i == FirstIndexOfCode(self.key, lcc.code)
         IN [self EXCEPT !.key[i] = LCClass_update(self.key[i], lcc)]

\* LCLegend.remove_class: [ret, legend]
LCLegend_remove_class(self, code) ==
    IF ~contains_key(self, code)
    THEN [ret |-> FALSE, legend |-> self]
    ELSE [ret |-> TRUE,
          legend |-> [self EXCEPT !.key = RemoveAt(self.key,
                                                   FirstIndexOfCode(self.key, code))]]

RECURSIVE Pow10(_)
Pow10(k) == IF k = 0 THEN 1 ELSE 10 * Pow10(k - 1)

RECURSIVE CeilLog10From(_, _)
CeilLog10From(n, k) == IF Pow10(k) >= n THEN k ELSE CeilLog10From(n, k + 1)

\* math.ceil(math.log10(n)) for n >= 1
CeilLog10(n) == CeilLog10From(n, 0)

\* get_multiplier rounding the logarithm down instead of up
get_multiplier_floor(self) ==
    LET n == Len(self.key)
        k == CeilLog10(n)
    IN IF Pow10(k) = n THEN Pow10(k) ELSE Pow10(k - 1)

\* get_multiplier returning the smallest power of ten greater than n
get_multiplier_above(self) ==
    LET n == Len(self.key)
        k == CeilLog10(n)
    IN IF Pow10(k) = n THEN Pow10(k + 1) ELSE Pow10(k)

\* LCLegend.get_multiplier (len(key) >= 1; log10(0) is a math domain error)
get_multiplier(self) == Pow10(CeilLog10(Len(self.key)))

\* the sum of the ordinals, with no multiplier
transition_code_sum(self, c_initial, c_final) ==
    class_index(self, c_initial) + class_index(self, c_final)

\* class_index(initial) * multiplier + class_index(final)
transition_code(self, c_initial, c_final) ==
    class_index(self, c_initial) * get_multiplier(self) + class_index(self, c_final)

---------------------------------------------------------------------------
(* dict and list helpers *)

DictKeys(d) == [i \in 1..Len(d) |-> d[i].k]

DictHas(d, k) == \E i \in 1..Len(d) : d[i].k = k

DictIdx(d, k) == CHOOSE i \in 1..Len(d) : d[i].k = k

\* d[k]
DictGet(d, k) == d[DictIdx(d, k)].v

\* d[k] = v: an existing key keeps its position, a new key goes last
DictPut(d, k, v) ==
    IF DictHas(d, k) THEN [d EXCEPT ![DictIdx(d, k)].v = v]
    ELSE Append(d, [k |-> k, v |-> v])

\* del d[k]
DictDel(d, k) == RemoveAt(d, DictIdx(d, k))

RECURSIVE DictValuesFlat(_)
\* [i for key, value in d.items() for i in value]
DictValuesFlat(d) ==
    IF d = <<>> THEN <<>> ELSE d[1].v \o DictValuesFlat(Tail(d))

\* list.remove(x): drops the first occurrence of x
ListRemove(s, x) == RemoveAt(s, IndexOf(s, x))

ListHas(s, x) == \E i \in 1..Len(s) : s[i] = x

---------------------------------------------------------------------------
(* LCLegendNesting; self is a record [parent, child, nesting] *)

\* LCLegend.classByCode: the class, or None where the code raises KeyError
classByCode(self, code) ==
    LET out == SelectSeq(key_with_nodata(self), LAMBDA c : c.code = code)
    IN IF out = <<>> THEN None ELSE Some(out[1])

\* __post_init__ comparing the sets of child codes, without the duplicate check
LCLegendNesting_post_init_sets(self) ==
    LET nesting_parent_codes == sorted_ints(DictKeys(self.nesting))
        nesting_child_codes == sorted_ints(DictValuesFlat(self.nesting))
    IN \/ sorted_ints(codes(self.parent)) # nesting_parent_codes
       \/ Range(codes(self.child)) # Range(nesting_child_codes)

\* LCLegendNesting.__post_init__: TRUE when it raises ValidationError
LCLegendNesting_post_init(self) ==
    LET nesting_parent_codes == sorted_ints(DictKeys(self.nesting))
        nesting_child_codes == sorted_ints(DictValuesFlat(self.nesting))
    IN \/ ~AllDistinct(nesting_parent_codes)
       \/ ~AllDistinct(nesting_child_codes)
       \/ sorted_ints(codes(self.parent)) # nesting_parent_codes
       \/ sorted_ints(codes(self.child)) # nesting_child_codes

\* [key for key, values in self.nesting.items() if c.code in values]
ParentCodesOf(self, c) ==
    DictKeys(SelectSeq(self.nesting, LAMBDA b : ListHas(b.v, c.code)))

\* LCLegendNesting.parent_for_child: the parent class or None
parent_for_child(self, c) ==
    LET parent_code == ParentCodesOf(self, c)
    IN IF Len(parent_code) = 0 THEN None
       ELSE class_by_code(self.parent, parent_code[1])

\* LCLegendNesting.parentClassForChild: the parent class, or None where it
\* raises KeyError (no bucket lists the child, or classByCode raises)
parentClassForChild(self, c) ==
    LET parent_code == ParentCodesOf(self, c)
    IN IF Len(parent_code) = 0 THEN None
       ELSE classByCode(self.parent, parent_code[1])

\* LCLegendNesting.orphan_children
orphan_children(self) ==
    SelectSeq(self.child.key, LAMBDA c : parent_for_child(self, c) = None)

child_class(self, code) == class_by_code(self.child, code)

\* one iteration of the loop of add_update_children
AddUpdateChild(self, c, parent_lcc) ==
    LET child_nodata == self.child.nodata
        child1 ==
            IF ~(child_nodata # None /\ c.code = child_nodata[1].code)
                 /\ child_class(self, c.code) = None
            THEN LCLegend_add_update_class(self.child, c)
            ELSE self.child
        par == parent_for_child(self, c)
        n1 == IF par # None
              THEN DictPut(self.nesting, par[1].code,
                           ListRemove(DictGet(self.nesting, par[1].code), c.code))
              ELSE self.nesting
        n2 == IF ~DictHas(n1, parent_lcc.code)
              THEN DictPut(n1, parent_lcc.code, <<>>)
              ELSE n1
        n3 == DictPut(n2, parent_lcc.code, Append(DictGet(n2, parent_lcc.code), c.code))
    IN [self EXCEPT !.child = child1, !.nesting = n3]

RECURSIVE AddUpdateChildren(_, _, _)
AddUpdateChildren(self, children, parent_lcc) ==
    IF children = <<>> THEN self
    ELSE AddUpdateChildren(AddUpdateChild(self, children[1], parent_lcc),
                           Tail(children), parent_lcc)

\* add_update_children without the check of the parent legend
LCLegendNesting_add_update_children_unchecked(self, children, parent_lcc) ==
    [ret |-> TRUE, self |-> AddUpdateChildren(self, children, parent_lcc)]

\* LCLegendNesting.add_update_children: [ret, self]
LCLegendNesting_add_update_children(self, children, parent_lcc) ==
    IF ~contains_key(self.parent, parent_lcc.code)
    THEN [ret |-> FALSE, self |-> self]
    ELSE [ret |-> TRUE, self |-> AddUpdateChildren(self, children, parent_lcc)]

\* LCLegendNesting.remove_parent_class: [ret, self]
LCLegendNesting_remove_parent_class(self, parent_lcc) ==
    IF ~contains_key(self.parent, parent_lcc.code)
    THEN [ret |-> FALSE, self |-> self]
    ELSE [ret |-> TRUE,
          self |-> [self EXCEPT
                      !.parent = LCLegend_remove_class(self.parent, parent_lcc.code).legend,
                      !.nesting = IF DictHas(self.nesting, parent_lcc.code)
                                  THEN DictDel(self.nesting, parent_lcc.code)
                                  ELSE self.nesting]]

\* LCLegendNesting.update_parent: [ret, self]; ret is "none" or "KeyError".
\* A KeyError of parentClassForChild leaves the nesting as it was; a KeyError
\* of self.nesting[new_parent.code] comes after the child has been removed
\* from its old bucket.
LCLegendNesting_update_parent(self, c, new_parent) ==
    LET old_parent == parentClassForChild(self, c)
    IN IF old_parent = None THEN [ret |-> "KeyError", self |-> self]
       ELSE LET n1 == DictPut(self.nesting, old_parent[1].code,
                              ListRemove(DictGet(self.nesting, old_parent[1].code),
                                         c.code))
            IN IF ~DictHas(n1, new_parent.code)
               THEN [ret |-> "KeyError", self |-> [self EXCEPT !.nesting = n1]]
               ELSE [ret |-> "none",
                     self |-> [self EXCEPT !.nesting =
                                 DictPut(n1, new_parent.code,
                                         Append(DictGet(n1, new_parent.code), c.code))]]

\* [key] * n
Repeat(key, n) == [i \in 1..n |-> key]

RECURSIVE NestingGetListLoop(_, _)
\* the loop of LCLegendNesting.get_list over self.nesting.items()
NestingGetListLoop(items, out) ==
    IF items = <<>> THEN out
    ELSE NestingGetListLoop(Tail(items),
                            <<out[1] \o items[1].v,
                              out[2] \o Repeat(items[1].k, Len(items[1].v))>>)

RECURSIVE NestingGetListLoop_key_once(_, _)
\* the loop with out[1].extend([key]) in place of [key] * len(values)
NestingGetListLoop_key_once(items, out) ==
    IF items = <<>> THEN out
    ELSE NestingGetListLoop_key_once(Tail(items),
                                     <<out[1] \o items[1].v,
                                       Append(out[2], items[1].k)>>)

LCLegendNesting_get_list_key_once(self) ==
    NestingGetListLoop_key_once(self.nesting, <<<<>>, <<>>>>)

\* LCLegendNesting.get_list: out = [[], []], filled bucket by bucket
LCLegendNesting_get_list(self) ==
    NestingGetListLoop(self.nesting, <<<<>>, <<>>>>)

\* LCLegendNesting.add_update_parent; children is an Optional[list]
LCLegendNesting_add_update_parent(self, parent_lcc, children) ==
    LET self1 == [self EXCEPT !.parent = LCLegend_add_update_class(self.parent, parent_lcc)]
    IN IF children # None /\ Len(children[1]) > 0
       THEN LCLegendNesting_add_update_children(self1, children[1], parent_lcc).self
       ELSE self1

---------------------------------------------------------------------------
(* Transition meanings, matrices and definitions.  A meaning is a record   *)
(* [initial, final, meaning]; "==" on classes compares every attribute.    *)

Meanings == {"degradation", "stable", "improvement"}

\* LCTransitionMeaningDeg.code
LCTransitionMeaningDeg_code(m) ==
    CASE m.meaning = "degradation" -> -1
      [] m.meaning = "stable" -> 0
      [] m.meaning = "improvement" -> 1

\* [t for t in transitions if (t.initial == c_initial) and (t.final == c_final)]
TransFor(ts, c_initial, c_final) ==
    SelectSeq(ts, LAMBDA t : t.initial = c_initial /\ t.final = c_final)

\* _validate_matrix without the check of the length of the list
_validate_matrix_no_length(l, ts) ==
    \E f, i \in 1..Len(l.key) :
        \/ l.nodata # None /\ (l.nodata[1] = l.key[i] \/ l.nodata[1] = l.key[f])
        \/ Len(TransFor(ts, l.key[i], l.key[f])) = 0
        \/ Len(TransFor(ts, l.key[i], l.key[f])) > 1

\* land_cover._validate_matrix: TRUE when it raises ValidationError
_validate_matrix(l, ts) ==
    \/ \E f, i \in 1..Len(l.key) :
          \/ l.nodata # None /\ (l.nodata[1] = l.key[i] \/ l.nodata[1] = l.key[f])
          \/ Len(TransFor(ts, l.key[i], l.key[f])) = 0
          \/ Len(TransFor(ts, l.key[i], l.key[f])) > 1
    \/ Len(ts) # Len(l.key) * Len(l.key)

\* te_schemas.validate_matrix: TRUE when it raises ValidationError
validate_matrix(l, ts) ==
    \/ \E f, i \in 1..Len(l.key) :
          \/ Len(TransFor(ts, l.key[i], l.key[f])) = 0
          \/ Len(TransFor(ts, l.key[i], l.key[f])) > 1
    \/ Len(ts) # Len(l.key) * Len(l.key)

\* the pair visited at step k of a double loop over key: the class of the
\* outer loop and the class of the inner loop
LoopOuter(l, k) == l.key[((k - 1) \div Len(l.key)) + 1]
LoopInner(l, k) == l.key[((k - 1) % Len(l.key)) + 1]

LoopSteps(l) == 1..(Len(l.key) * Len(l.key))

\* get_list with c_initial in the outer loop
get_list_initial_outer(l, ts) ==
    [err |-> \E k \in LoopSteps(l) :
                 TransFor(ts, LoopOuter(l, k), LoopInner(l, k)) = <<>>,
     out |-> << [k \in LoopSteps(l) |->
                   transition_code(l, LoopOuter(l, k), LoopInner(l, k))],
                [k \in LoopSteps(l) |->
                   LET trans == TransFor(ts, LoopOuter(l, k), LoopInner(l, k))
                   IN IF trans = <<>> THEN 0 ELSE LCTransitionMeaningDeg_code(trans[1])] >>]

\* LCTransitionDefinitionBase.get_list for a single matrix: [err, out]; err
\* when a pair has no meaning ([...][0] raises IndexError); c_final is the
\* outer loop, c_initial the inner
get_list(l, ts) ==
    [err |-> \E k \in LoopSteps(l) :
                 TransFor(ts, LoopInner(l, k), LoopOuter(l, k)) = <<>>,
     out |-> << [k \in LoopSteps(l) |->
                   transition_code(l, LoopInner(l, k), LoopOuter(l, k))],
                [k \in LoopSteps(l) |->
                   LET trans == TransFor(ts, LoopInner(l, k), LoopOuter(l, k))
                   IN IF trans = <<>> THEN 0 ELSE LCTransitionMeaningDeg_code(trans[1])] >>]

\* get_persistence_list without the remapping of the persistence classes
get_persistence_list_full(l) ==
    << [k \in LoopSteps(l) |-> transition_code(l, LoopOuter(l, k), LoopInner(l, k))],
       [k \in LoopSteps(l) |-> transition_code(l, LoopOuter(l, k), LoopInner(l, k))] >>

\* LCTransitionDefinitionBase.get_persistence_list: c_initial is the outer
\* loop, c_final the inner
get_persistence_list(l) ==
    << [k \in LoopSteps(l) |-> transition_code(l, LoopOuter(l, k), LoopInner(l, k))],
       [k \in LoopSteps(l) |->
          IF LoopInner(l, k).code = LoopOuter(l, k).code
          THEN class_index(l, LoopOuter(l, k))
          ELSE transition_code(l, LoopOuter(l, k), LoopInner(l, k))] >>

RECURSIVE IntegersKeyFrom(_, _)
\* the dict get_transition_integers_key has built after k steps of its loops
IntegersKeyFrom(l, k) ==
    IF k = 0 THEN <<>>
    ELSE DictPut(IntegersKeyFrom(l, k - 1),
                 transition_code(l, LoopOuter(l, k), LoopInner(l, k)),
                 [initial |-> LoopOuter(l, k).code, final |-> LoopInner(l, k).code])

RECURSIVE IntegersKeyFrom_swapped(_, _)
\* get_transition_integers_key with c_final as the class of the outer loop
IntegersKeyFrom_swapped(l, k) ==
    IF k = 0 THEN <<>>
    ELSE DictPut(IntegersKeyFrom_swapped(l, k - 1),
                 transition_code(l, LoopInner(l, k), LoopOuter(l, k)),
                 [initial |-> LoopOuter(l, k).code, final |-> LoopInner(l, k).code])

get_transition_integers_key_swapped(l) == IntegersKeyFrom_swapped(l, Len(l.key) * Len(l.key))

\* LCTransitionDefinitionBase.get_transition_integers_key: c_initial is the
\* outer loop, c_final the inner; out[code] = {"initial", "final"}
get_transition_integers_key(l) == IntegersKeyFrom(l, Len(l.key) * Len(l.key))

RECURSIVE InitialFinalKeyFrom(_, _)
\* the nested dict get_transition_initial_final_key has built after k steps
InitialFinalKeyFrom(l, k) ==
    IF k = 0 THEN <<>>
    ELSE LET out == InitialFinalKeyFrom(l, k - 1)
             c_initial == LoopOuter(l, k)
             c_final == LoopInner(l, k)
             out1 == IF ~DictHas(out, c_initial.code)
                     THEN DictPut(out, c_initial.code, <<>>) ELSE out
         IN DictPut(out1, c_initial.code,
                    DictPut(DictGet(out1, c_initial.code), c_final.code,
                            transition_code(l, c_initial, c_final)))

\* LCTransitionDefinitionBase.get_transition_initial_final_key:
\* out[c_initial.code][c_final.code] = code
get_transition_initial_final_key(l) == InitialFinalKeyFrom(l, Len(l.key) * Len(l.key))

---------------------------------------------------------------------------
(* LCTransitionMeaning, LCTransitionMatrixDeg, LCTransitionDefinitionDeg:  *)
(* the mutators of a definition [legend, transitions]                      *)

\* LCTransitionMeaning.contains_class: the tuple (status, classes)
contains_class(m, lcc) ==
    << (m.initial.code = lcc.code) \/ (m.final.code = lcc.code),
       (IF m.initial.code = lcc.code THEN <<m.initial>> ELSE <<>>)
           \o (IF m.final.code = lcc.code THEN <<m.final>> ELSE <<>>) >>

\* the truth value of a tuple in a condition: a tuple is false only when empty
TupleTruth(t) == Len(t) # 0

RECURSIVE RemoveMeaningsLoop(_, _, _, _)
\* the while loop of remove_meanings_by_class from index i (1-based) on
RemoveMeaningsLoop(ts, lcc, i, status) ==
    IF i > Len(ts) THEN [ret |-> status, transitions |-> ts]
    ELSE IF TupleTruth(contains_class(ts[i], lcc))
         THEN RemoveMeaningsLoop(RemoveAt(ts, i), lcc, i, TRUE)
         ELSE RemoveMeaningsLoop(ts, lcc, i + 1, status)

\* LCTransitionMatrixDeg.remove_meanings_by_class: [ret, transitions]
remove_meanings_by_class(ts, lcc) == RemoveMeaningsLoop(ts, lcc, 1, FALSE)

\* LCTransitionDefinitionDeg.remove_class: [ret, legend, transitions]
LCTransitionDefinitionDeg_remove_class(l, ts, lcc) ==
    LET lr == LCLegend_remove_class(l, lcc.code)
        mr == remove_meanings_by_class(ts, lcc)
    IN [ret |-> lr.ret /\ mr.ret, legend |-> lr.legend, transitions |-> mr.transitions]

\* LCTransitionMatrixBase.meaning_by_transition: the first meaning with the
\* codes of initial and final, or None
meaning_by_transition(ts, initial, final) ==
    LET matches == SelectSeq(ts, LAMBDA m : m.initial.code = initial.code
                                            /\ m.final.code = final.code)
    IN IF Len(matches) = 0 THEN None ELSE Some(matches[1])

\* LCTransitionMatrixBase.meaningByTransition: [err, out].  The list of the
\* meanings of the entries equal to (initial, final) is indexed with [0],
\* which raises IndexError when it is empty; the value taken is a meaning,
\* never [], so the branch returning KeyError is not taken.
meaningByTransition(ts, initial, final) ==
    LET matches == SelectSeq(ts, LAMBDA m : m.initial = initial /\ m.final = final)
    IN IF Len(matches) = 0
       THEN [err |-> "IndexError", out |-> None]
       ELSE [err |-> "none", out |-> Some(matches[1].meaning)]

\* LCTransitionMeaning.update_class
update_class(m, lcc) ==
    IF ~contains_class(m, lcc)[1] THEN m
    ELSE [m EXCEPT !.initial = IF m.initial.code = lcc.code
                                THEN LCClass_update(m.initial, lcc) ELSE m.initial,
                   !.final = IF m.final.code = lcc.code
                              THEN LCClass_update(m.final, lcc) ELSE m.final]

\* LCTransitionMatrixDeg.update_meaning_classes
update_meaning_classes(ts, lcc) == [k \in 1..Len(ts) |-> update_class(ts[k], lcc)]

RECURSIVE AddMeaningsLoop(_, _, _, _)
\* the transitions after the first k steps of the double loop of
\* add_update_class over the key of l
AddMeaningsLoop(l, ts, meaning_str, k) ==
    IF k = 0 THEN ts
    ELSE LET ts0 == AddMeaningsLoop(l, ts, meaning_str, k - 1)
             init_lcc == LoopOuter(l, k)
             final_lcc == LoopInner(l, k)
             ts1 == IF meaning_by_transition(ts0, init_lcc, final_lcc) = None
                    THEN Append(ts0, [initial |-> init_lcc, final |-> final_lcc,
                                      meaning |-> meaning_str])
                    ELSE ts0
         IN IF meaning_by_transition(ts1, final_lcc, init_lcc) = None
            THEN Append(ts1, [initial |-> final_lcc, final |-> init_lcc,
                              meaning |-> meaning_str])
            ELSE ts1

\* add_update_class that gives the new entries the meaning "stable" whatever
\* meaning_str is
LCTransitionDefinitionDeg_add_update_class_stable(l, ts, lcc, meaning_str) ==
    LET l1 == LCLegend_add_update_class(l, lcc)
    IN [legend |-> l1,
        transitions |-> update_meaning_classes(
            AddMeaningsLoop(l1, ts, "stable", Len(l1.key) * Len(l1.key)), lcc)]

\* LCTransitionDefinitionDeg.add_update_class; meaning_str is None or
\* Some(string): [legend, transitions]
LCTransitionDefinitionDeg_add_update_class(l, ts, lcc, meaning_str) ==
    LET str == IF meaning_str = None THEN "stable" ELSE meaning_str[1]
        l1 == LCLegend_add_update_class(l, lcc)
    IN [legend |-> l1,
        transitions |-> update_meaning_classes(
            AddMeaningsLoop(l1, ts, str, Len(l1.key) * Len(l1.key)), lcc)]

---------------------------------------------------------------------------
(* LCTransitionDefinitionBase.validate_transitions.  definitions is a      *)
(* record [kind, items]: kind "dict" with items a dict from names to        *)
(* transitions lists, kind "matrix" with the transitions list of the one    *)
(* matrix as the only item, or kind "other".  A name is the sequence of the *)
(* characters of the str.                                                   *)

\* key, m = <a str>: the exception of the first iteration of the loop.  A
\* str of other than two characters does not unpack; one of two characters
\* unpacks into two strs, and m.transitions is then not an attribute.
UnpackKeyAndValidate(name) ==
    IF Len(name) # 2 THEN "ValueError" ELSE "AttributeError"

\* for key, m in data["definitions"]: the loop runs over the keys of the dict
ValidateDefinitionsDict(l, items) ==
    IF items = <<>> THEN "none" ELSE UnpackKeyAndValidate(items[1].k)

\* LCTransitionDefinitionBase.validate_transitions: the exception raised, or "none"
validate_transitions(l, d) ==
    IF d.kind = "dict" THEN ValidateDefinitionsDict(l, d.items)
    ELSE IF d.kind = "matrix"
         THEN IF _validate_matrix(l, d.items[1].v) THEN "ValidationError" ELSE "none"
         ELSE "ValidationError"

---------------------------------------------------------------------------
(* ErrorRecodePolygons: the option tuples and the two code tables.  An     *)
(* Optional[int] is None or Some(i); a tuple key is a sequence of three.   *)

recode_deg_to_options == <<None, Some(-32768), Some(0), Some(1)>>
recode_stable_to_options == <<None, Some(-32768), Some(-1), Some(1)>>
recode_imp_to_options == <<None, Some(-32768), Some(-1), Some(0)>>

\* x if x is not None else -9999
NoneToSentinel(x) == IF x # None THEN x[1] ELSE -9999

\* None represented by the nodata value
NoneToNodata(x) == IF x # None THEN x[1] ELSE -32768

\* the state of the nested loops at their start: the indices i, j, k, the
\* counter n and the value built so far
LoopStart(out) == [i |-> 0, j |-> 0, k |-> 0, n |-> 0, out |-> out]

RECURSIVE TransCodeListsLoop_nodata_k(_)
\* trans_code_lists with None represented by -32768: the innermost loop, from the loop state st on
TransCodeListsLoop_nodata_k(st) ==
    IF st.k >= Len(recode_imp_to_options) THEN st
    ELSE TransCodeListsLoop_nodata_k([st EXCEPT
            !.k = @ + 1,
            !.n = @ + 1,
            !.out = << Append(@[1], st.n),
                       Append(@[2], NoneToNodata(recode_deg_to_options[st.i + 1])),
                       Append(@[3], NoneToNodata(recode_stable_to_options[st.j + 1])),
                       Append(@[4], NoneToNodata(recode_imp_to_options[st.k + 1])) >>])

RECURSIVE TransCodeListsLoop_nodata_j(_)
\* trans_code_lists with None represented by -32768: the middle loop
TransCodeListsLoop_nodata_j(st) ==
    IF st.j >= Len(recode_stable_to_options) THEN st
    ELSE TransCodeListsLoop_nodata_j([TransCodeListsLoop_nodata_k([st EXCEPT !.k = 0]) EXCEPT !.j = @ + 1])

RECURSIVE TransCodeListsLoop_nodata_i(_)
\* trans_code_lists with None represented by -32768: the outermost loop
TransCodeListsLoop_nodata_i(st) ==
    IF st.i >= Len(recode_deg_to_options) THEN st
    ELSE TransCodeListsLoop_nodata_i([TransCodeListsLoop_nodata_j([st EXCEPT !.j = 0]) EXCEPT !.i = @ + 1])

trans_code_lists_nodata ==
    TransCodeListsLoop_nodata_i(LoopStart(<<<<>>, <<>>, <<>>, <<>>>>)).out

RECURSIVE TransCodeListsLoop_k(_)
\* trans_code_lists, out = (codes, deg_to, stable_to, imp_to): the innermost
\* loop, from the loop state st on
TransCodeListsLoop_k(st) ==
    IF st.k >= Len(recode_imp_to_options) THEN st
    ELSE TransCodeListsLoop_k([st EXCEPT
            !.k = @ + 1,
            !.n = @ + 1,
            !.out = << Append(@[1], st.n),
                       Append(@[2], NoneToSentinel(recode_deg_to_options[st.i + 1])),
                       Append(@[3], NoneToSentinel(recode_stable_to_options[st.j + 1])),
                       Append(@[4], NoneToSentinel(recode_imp_to_options[st.k + 1])) >>])

RECURSIVE TransCodeListsLoop_j(_)
\* trans_code_lists, out = (codes, deg_to, stable_to, imp_to): the middle loop
TransCodeListsLoop_j(st) ==
    IF st.j >= Len(recode_stable_to_options) THEN st
    ELSE TransCodeListsLoop_j([TransCodeListsLoop_k([st EXCEPT !.k = 0]) EXCEPT !.j = @ + 1])

RECURSIVE TransCodeListsLoop_i(_)
\* trans_code_lists, out = (codes, deg_to, stable_to, imp_to): the outermost loop
TransCodeListsLoop_i(st) ==
    IF st.i >= Len(recode_deg_to_options) THEN st
    ELSE TransCodeListsLoop_i([TransCodeListsLoop_j([st EXCEPT !.j = 0]) EXCEPT !.i = @ + 1])

\* ErrorRecodePolygons.trans_code_lists
trans_code_lists == TransCodeListsLoop_i(LoopStart(<<<<>>, <<>>, <<>>, <<>>>>)).out

RECURSIVE RecodeDictLoop_imp_outer_k(_)
\* recode_to_trans_code_dict with the improved option outermost and the
\* degraded option innermost: the innermost loop, from the loop state st on
RecodeDictLoop_imp_outer_k(st) ==
    IF st.k >= Len(recode_deg_to_options) THEN st
    ELSE RecodeDictLoop_imp_outer_k([st EXCEPT
            !.k = @ + 1,
            !.n = @ + 1,
            !.out = DictPut(@, << recode_deg_to_options[st.k + 1],
                                  recode_stable_to_options[st.j + 1],
                                  recode_imp_to_options[st.i + 1] >>, st.n)])

RECURSIVE RecodeDictLoop_imp_outer_j(_)
\* recode_to_trans_code_dict with the improved option outermost and the
\* degraded option innermost: the middle loop
RecodeDictLoop_imp_outer_j(st) ==
    IF st.j >= Len(recode_stable_to_options) THEN st
    ELSE RecodeDictLoop_imp_outer_j([RecodeDictLoop_imp_outer_k([st EXCEPT !.k = 0]) EXCEPT !.j = @ + 1])

RECURSIVE RecodeDictLoop_imp_outer_i(_)
\* recode_to_trans_code_dict with the improved option outermost and the
\* degraded option innermost: the outermost loop
RecodeDictLoop_imp_outer_i(st) ==
    IF st.i >= Len(recode_imp_to_options) THEN st
    ELSE RecodeDictLoop_imp_outer_i([RecodeDictLoop_imp_outer_j([st EXCEPT !.j = 0]) EXCEPT !.i = @ + 1])

recode_to_trans_code_dict_imp_outer == RecodeDictLoop_imp_outer_i(LoopStart(<<>>)).out

RECURSIVE RecodeDictLoop_k(_)
\* recode_to_trans_code_dict: the innermost loop, from the loop state st on
RecodeDictLoop_k(st) ==
    IF st.k >= Len(recode_imp_to_options) THEN st
    ELSE RecodeDictLoop_k([st EXCEPT
            !.k = @ + 1,
            !.n = @ + 1,
            !.out = DictPut(@, << recode_deg_to_options[st.i + 1],
                                  recode_stable_to_options[st.j + 1],
                                  recode_imp_to_options[st.k + 1] >>, st.n)])

RECURSIVE RecodeDictLoop_j(_)
\* recode_to_trans_code_dict: the middle loop
RecodeDictLoop_j(st) ==
    IF st.j >= Len(recode_stable_to_options) THEN st
    ELSE RecodeDictLoop_j([RecodeDictLoop_k([st EXCEPT !.k = 0]) EXCEPT !.j = @ + 1])

RECURSIVE RecodeDictLoop_i(_)
\* recode_to_trans_code_dict: the outermost loop
RecodeDictLoop_i(st) ==
    IF st.i >= Len(recode_deg_to_options) THEN st
    ELSE RecodeDictLoop_i([RecodeDictLoop_j([st EXCEPT !.j = 0]) EXCEPT !.i = @ + 1])

\* ErrorRecodePolygons.recode_to_trans_code_dict
recode_to_trans_code_dict == RecodeDictLoop_i(LoopStart(<<>>)).out

---------------------------------------------------------------------------
(* jobs.ResultsField.  A value is None, a dict [kind, type, name] whose    *)
(* "type" entry is None or Some(string), or an already typed result        *)
(* [kind, class, name]; "name" stands for the other entries.  The value    *)
(* handed to the field is [isList, items]: a list of values, or one value. *)

NoneValue == [kind |-> "None"]

\* results.ResultType: the values of the enumeration
ResultType ==
    {"CloudResults", "RasterResults", "FileResults", "TimeSeriesTable",
     "JsonResults", "EmptyResults", "VectorResults"}

\* ResultsField.RESULT_TYPE_MAP: type string -> name of the schema class
RESULT_TYPE_MAP ==
    << [k |-> "RasterResults", v |-> "RasterResults"],
       [k |-> "VectorResults", v |-> "VectorResults"],
       [k |-> "FileResults", v |-> "FileResults"],
       [k |-> "JsonResults", v |-> "JsonResults"],
       [k |-> "TimeSeriesTable", v |-> "TimeSeriesTableResult"],
       [k |-> "EmptyResults", v |-> "EmptyResults"],
       [k |-> "CloudResults", v |-> "CloudResults"] >>

\* schema_class.Schema().load(value) for a dict that the schema accepts
SchemaLoad(schema_class, value) ==
    [kind |-> "object", class |-> schema_class, name |-> value.name]

\* ResultsField._deserialize_single
_deserialize_single(value) ==
    IF value = NoneValue THEN NoneValue
    ELSE IF value.kind # "dict" THEN value
    ELSE IF value.type # None /\ DictHas(RESULT_TYPE_MAP, value.type[1])
         THEN SchemaLoad(DictGet(RESULT_TYPE_MAP, value.type[1]), value)
         ELSE value

\* ResultsField._deserialize: [isList, items]; None for None
_deserialize(value) ==
    IF ~value.isList /\ value.items[1] = NoneValue THEN value
    ELSE IF value.isList
         THEN [isList |-> TRUE,
               items |-> SelectSeq([i \in 1..Len(value.items) |->
                                       _deserialize_single(value.items[i])],
                                   LAMBDA item : item # NoneValue)]
         ELSE [isList |-> FALSE, items |-> <<_deserialize_single(value.items[1])>>]

---------------------------------------------------------------------------
(* Specification of one legend: construction, then add_update_class and    *)
(* remove_class in any order.                                              *)

NoCall == [op |-> "none", arg |-> <<>>, ret |-> "none"]

EmptyLegend == [key |-> <<>>, nodata |-> None]

\* no legend of its own under construction
LegendIdle ==
    /\ legend = EmptyLegend
    /\ lc_status = "idle"
    /\ lc_last = NoCall

\* no nesting under construction
NestingIdle ==
    /\ parent = EmptyLegend
    /\ child = EmptyLegend
    /\ nesting = <<>>
    /\ n_status = "idle"
    /\ n_last = NoCall
    /\ n_calls = 0

\* no transition matrix under construction
MatrixIdle ==
    /\ transitions = <<>>
    /\ m_last = NoCall
    /\ m_calls = 0

\* no error-recode lookup in progress
RecodeIdle ==
    /\ props = [recode_deg_to |-> None, recode_stable_to |-> None, recode_imp_to |-> None]
    /\ r_last = NoCall

\* no value handed to a ResultsField
ResultsIdle ==
    /\ rf_value = [isList |-> FALSE, items |-> <<>>]
    /\ rf_last = NoCall

DefinitionsIdle ==
    /\ definitions = [kind |-> "other", items |-> <<>>]
    /\ v_last = NoCall

OtherIdle == RecodeIdle /\ ResultsIdle /\ DefinitionsIdle

LegendInit ==
    /\ legend \in [key : SeqUpTo(Classes, MaxLen), nodata : NoDataOptions]
    /\ lc_status = "new"
    /\ lc_last = NoCall
    /\ NestingIdle
    /\ MatrixIdle
    /\ OtherIdle

PostInit ==
    /\ lc_status = "new"
    /\ LET r == LCLegend_post_init(legend)
       IN /\ legend' = r.legend
          /\ lc_status' = IF r.err THEN "error" ELSE "ok"
          /\ lc_last' = [op |-> "post_init", arg |-> legend.key,
                         ret |-> IF r.err THEN "ValidationError" ELSE "none"]
    /\ UNCHANGED <<nestingVars, otherVars, matrixVars>>

AddUpdateClass ==
    /\ lc_status = "ok"
    /\ \E lcc \in Classes :
          /\ legend' = LCLegend_add_update_class(legend, lcc)
          /\ lc_last' = [op |-> "add_update_class", arg |-> <<lcc>>, ret |-> "none"]
    /\ UNCHANGED <<lc_status, nestingVars, otherVars, matrixVars>>

RemoveClass ==
    /\ lc_status = "ok"
    /\ \E code \in Codes :
          LET r == LCLegend_remove_class(legend, code)
          IN /\ legend' = r.legend
             /\ lc_last' = [op |-> "remove_class", arg |-> <<code>>,
                            ret |-> IF r.ret THEN "True" ELSE "False"]
    /\ UNCHANGED <<lc_status, nestingVars, otherVars, matrixVars>>

LegendNext == PostInit \/ AddUpdateClass \/ RemoveClass

Spec == LegendInit /\ [][LegendNext]_vars

---------------------------------------------------------------------------
(* Specification of large legends, for the transition codes: legends of    *)
(* 1..MaxClasses classes whose codes are spaced by 1..MaxStride, given in  *)
(* ascending or descending order, constructed, and then extended by a      *)
(* class of lower code.                                                    *)

StridedKey(n, stride, descending) ==
    [i \in 1..n |-> [code |-> stride * (IF descending THEN n + 1 - i ELSE i),
                     name |-> "a"]]

CodesInit ==
    /\ \E n \in 1..MaxClasses, stride \in 1..MaxStride, descending \in BOOLEAN :
          legend = [key |-> StridedKey(n, stride, descending), nodata |-> None]
    /\ lc_status = "new"
    /\ lc_last = NoCall
    /\ NestingIdle
    /\ MatrixIdle
    /\ OtherIdle

CodesAddLow ==
    /\ lc_status = "ok"
    /\ Len(legend.key) < MaxClasses
    /\ LET lcc == [code |-> 0, name |-> "a"]
       IN /\ legend' = LCLegend_add_update_class(legend, lcc)
          /\ lc_last' = [op |-> "add_update_class", arg |-> <<lcc>>, ret |-> "none"]
    /\ UNCHANGED <<lc_status, nestingVars, otherVars, matrixVars>>

\* legend.get_multiplier(); math.log10(0) raises ValueError
GetMultiplier ==
    /\ lc_status = "ok"
    /\ lc_last' = [op |-> "get_multiplier", arg |-> <<>>,
                   ret |-> IF Len(legend.key) = 0
                           THEN [err |-> "ValueError", out |-> 0]
                           ELSE [err |-> "none", out |-> get_multiplier(legend)]]
    /\ UNCHANGED <<legend, lc_status, nestingVars, otherVars, matrixVars>>

CodesNext == PostInit \/ CodesAddLow \/ GetMultiplier

SpecCodes == CodesInit /\ [][CodesNext]_vars

---------------------------------------------------------------------------
(* Specification of the construction of a nesting: every pair of legends   *)
(* over the codes 1..MaxInitCode and every dict whose keys and child codes *)
(* are among 0..MaxInitCode, with at most MaxInitCode + 1 child codes      *)
(* listed, is given to __post_init__.                                      *)

RECURSIVE SetToSeq(_)
\* the elements of a set of integers in ascending order
SetToSeq(S) ==
    IF S = {} THEN <<>>
    ELSE LET m == CHOOSE x \in S : \A y \in S : x <= y
         IN <<m>> \o SetToSeq(S \ {m})

\* legends as construction leaves them: key ascending by code, codes unique
LegendsOver(codeSet) ==
    {[key |-> [i \in 1..Len(SetToSeq(T)) |-> [code |-> SetToSeq(T)[i], name |-> "a"]],
      nodata |-> nd] : T \in SUBSET codeSet, nd \in NoDataOptions}

\* the dict with the keys T in ascending order and the values f[k]
DictOf(T, f) == [i \in 1..Len(SetToSeq(T)) |->
                    [k |-> SetToSeq(T)[i], v |-> f[SetToSeq(T)[i]]]]

DictsOver(keySet, childSet, maxListed) ==
    UNION {{DictOf(T, f) : f \in {g \in [T -> SeqUpTo(childSet, maxListed)] :
                                    Len(DictValuesFlat(DictOf(T, g))) <= maxListed}}
           : T \in SUBSET keySet}

InitLegends == LegendsOver(1..MaxInitCode)

InitNestings == DictsOver(0..MaxInitCode, 0..MaxInitCode, MaxInitCode + 1)

NestingSelf == [parent |-> parent, child |-> child, nesting |-> nesting]

NestingInitInit ==
    /\ parent \in InitLegends
    /\ child \in InitLegends
    /\ nesting \in InitNestings
    /\ n_status = "new"
    /\ n_last = NoCall
    /\ n_calls = 0
    /\ LegendIdle
    /\ MatrixIdle
    /\ OtherIdle

NestingPostInit ==
    /\ n_status = "new"
    /\ LET err == LCLegendNesting_post_init(NestingSelf)
       IN /\ n_status' = IF err THEN "error" ELSE "ok"
          /\ n_last' = [op |-> "post_init", arg |-> <<>>,
                        ret |-> IF err THEN "ValidationError" ELSE "none"]
    /\ UNCHANGED <<parent, child, nesting, n_calls, legendVars, matrixVars, otherVars>>

NestingInitNext == NestingPostInit

SpecNestingInit == NestingInitInit /\ [][NestingInitNext]_vars

---------------------------------------------------------------------------
(* Specification of a constructed nesting under its mutating operations.   *)
(* Init holds every nesting over legends with the codes 1..MaxNestCode     *)
(* (and nodata) that __post_init__ accepts: each child code in one bucket,  *)
(* the child codes in any order.                                           *)

NestLegends == LegendsOver(1..MaxNestCode)

NestClasses == [code : 0..MaxNestCode, name : {"a"}]

Perms(S) == {s \in [1..Cardinality(S) -> S] : \A i, j \in DOMAIN s : s[i] = s[j] => i = j}

PartitionDicts(p, c) ==
    LET PC == Range(codes(p))
        CC == Range(codes(c))
    IN {DictOf(PC, [k \in PC |-> SelectSeq(perm, LAMBDA x : f[x] = k)])
           : f \in [CC -> PC], perm \in Perms(CC)}

NestingInit ==
    /\ parent \in NestLegends
    /\ child \in NestLegends
    /\ nesting \in PartitionDicts(parent, child)
    /\ ~LCLegendNesting_post_init(NestingSelf)
    /\ n_status = "ok"
    /\ n_last = NoCall
    /\ n_calls = 0
    /\ LegendIdle
    /\ MatrixIdle
    /\ OtherIdle

NestAddUpdateChildren ==
    /\ n_status = "ok"
    /\ n_calls < MaxCalls
    /\ n_calls' = n_calls + 1
    /\ \E children \in SeqUpTo(NestClasses, MaxChildren), parent_lcc \in NestClasses :
          /\ LET r == LCLegendNesting_add_update_children(NestingSelf, children, parent_lcc)
             IN /\ parent' = r.self.parent
                /\ child' = r.self.child
                /\ nesting' = r.self.nesting
                /\ n_last' = [op |-> "add_update_children",
                              arg |-> <<children, parent_lcc>>,
                              ret |-> IF r.ret THEN "True" ELSE "False"]
    /\ UNCHANGED <<n_status, legendVars, matrixVars, otherVars>>

NestRemoveParentClass ==
    /\ n_status = "ok"
    /\ n_calls < MaxCalls
    /\ n_calls' = n_calls + 1
    /\ \E parent_lcc \in NestClasses :
          LET r == LCLegendNesting_remove_parent_class(NestingSelf, parent_lcc)
          IN /\ parent' = r.self.parent
             /\ child' = r.self.child
             /\ nesting' = r.self.nesting
             /\ n_last' = [op |-> "remove_parent_class", arg |-> <<parent_lcc>>,
                           ret |-> IF r.ret THEN "True" ELSE "False"]
    /\ UNCHANGED <<n_status, legendVars, matrixVars, otherVars>>

NestUpdateParent ==
    /\ n_status = "ok"
    /\ n_calls < MaxCalls
    /\ n_calls' = n_calls + 1
    /\ \E c \in NestClasses, new_parent \in NestClasses :
          LET r == LCLegendNesting_update_parent(NestingSelf, c, new_parent)
          IN /\ parent' = r.self.parent
             /\ child' = r.self.child
             /\ nesting' = r.self.nesting
             /\ n_last' = [op |-> "update_parent", arg |-> <<c, new_parent>>,
                           ret |-> r.ret]
    /\ UNCHANGED <<n_status, legendVars, matrixVars, otherVars>>

NestingNext == NestAddUpdateChildren \/ NestRemoveParentClass \/ NestUpdateParent

SpecNesting == NestingInit /\ [][NestingNext]_vars

---------------------------------------------------------------------------
(* Specification of the validation of a transitions list.  Init holds a    *)
(* constructed legend over the codes 1..MaxMatrixCode and the list with one *)
(* meaning per ordered pair of its classes; the caller then removes,       *)
(* duplicates or appends up to MaxEdits entries, and validates the list.   *)

NaturalMeaning(c_initial, c_final) ==
    IF c_initial.code = c_final.code THEN "stable"
    ELSE IF c_initial.code < c_final.code THEN "degradation" ELSE "improvement"

\* one meaning per ordered pair of key, listed with c_final or with
\* c_initial in the outer loop
CompleteList(l, finalOuter) ==
    [k \in LoopSteps(l) |->
        LET c_initial == IF finalOuter THEN LoopInner(l, k) ELSE LoopOuter(l, k)
            c_final == IF finalOuter THEN LoopOuter(l, k) ELSE LoopInner(l, k)
        IN [initial |-> c_initial, final |-> c_final,
            meaning |-> NaturalMeaning(c_initial, c_final)]]

\* the classes an appended entry may name: the legend's, its nodata class,
\* and a class that differs from a class of key in an attribute other than code
ExtraClasses(l) == Range(key_with_nodata(l)) \cup {[code |-> 1, name |-> "b"]}

ValidateInit ==
    /\ legend \in LegendsOver(1..MaxMatrixCode)
    /\ lc_status = "ok"
    /\ lc_last = NoCall
    /\ \E finalOuter \in BOOLEAN : transitions = CompleteList(legend, finalOuter)
    /\ m_last = NoCall
    /\ m_calls = 0
    /\ NestingIdle
    /\ OtherIdle

EditRemove ==
    /\ m_calls < MaxEdits
    /\ \E k \in 1..Len(transitions) : transitions' = RemoveAt(transitions, k)
    /\ m_calls' = m_calls + 1
    /\ m_last' = NoCall
    /\ UNCHANGED <<legendVars, nestingVars, otherVars>>

EditDuplicate ==
    /\ m_calls < MaxEdits
    /\ \E k \in 1..Len(transitions) : transitions' = Append(transitions, transitions[k])
    /\ m_calls' = m_calls + 1
    /\ m_last' = NoCall
    /\ UNCHANGED <<legendVars, nestingVars, otherVars>>

EditAppend ==
    /\ m_calls < MaxEdits
    /\ \E c_initial, c_final \in ExtraClasses(legend) :
          transitions' = Append(transitions, [initial |-> c_initial, final |-> c_final,
                                              meaning |-> "stable"])
    /\ m_calls' = m_calls + 1
    /\ m_last' = NoCall
    /\ UNCHANGED <<legendVars, nestingVars, otherVars>>

ValidateMatrixLC ==
    /\ m_last' = [op |-> "_validate_matrix", arg |-> <<>>,
                  ret |-> IF _validate_matrix(legend, transitions)
                          THEN "ValidationError" ELSE "none"]
    /\ UNCHANGED <<legendVars, nestingVars, otherVars, transitions, m_calls>>

ValidateMatrixInit ==
    /\ m_last' = [op |-> "validate_matrix", arg |-> <<>>,
                  ret |-> IF validate_matrix(legend, transitions)
                          THEN "ValidationError" ELSE "none"]
    /\ UNCHANGED <<legendVars, nestingVars, otherVars, transitions, m_calls>>

ValidateNext ==
    EditRemove \/ EditDuplicate \/ EditAppend \/ ValidateMatrixLC \/ ValidateMatrixInit

SpecValidate == ValidateInit /\ [][ValidateNext]_vars

---------------------------------------------------------------------------
(* Specification of a validated single-matrix transition definition.  Init *)
(* holds a constructed legend of up to MaxDefClasses classes whose codes    *)
(* are spaced by 1..MaxStride and a matrix giving every ordered pair any    *)
(* meaning, listed in either loop order, that _validate_matrix accepts.     *)

DefLegends ==
    {[key |-> StridedKey(n, stride, descending), nodata |-> nd] :
        n \in 0..MaxDefClasses, stride \in 1..MaxStride, descending \in BOOLEAN,
        nd \in {None, Some([code |-> 0, name |-> "a"])}}

\* the complete lists of l with the meanings given by assignment f of the steps
DefMatrices(l) ==
    {[k \in LoopSteps(l) |-> [CompleteList(l, finalOuter)[k] EXCEPT !.meaning = f[k]]]
        : f \in [LoopSteps(l) -> Meanings], finalOuter \in BOOLEAN}

MatrixInit ==
    /\ legend \in DefLegends
    /\ lc_status = "ok"
    /\ lc_last = NoCall
    /\ transitions \in DefMatrices(legend)
    /\ ~_validate_matrix(legend, transitions)
    /\ m_last = NoCall
    /\ m_calls = 0
    /\ NestingIdle
    /\ OtherIdle

GetList ==
    /\ LET r == get_list(legend, transitions)
       IN m_last' = [op |-> "get_list", arg |-> <<>>,
                     ret |-> IF r.err THEN [err |-> "IndexError", out |-> <<>>]
                             ELSE [err |-> "none", out |-> r.out]]
    /\ UNCHANGED <<legendVars, nestingVars, otherVars, transitions, m_calls>>

GetPersistenceList ==
    /\ m_last' = [op |-> "get_persistence_list", arg |-> <<>>,
                  ret |-> [err |-> "none", out |-> get_persistence_list(legend)]]
    /\ UNCHANGED <<legendVars, nestingVars, otherVars, transitions, m_calls>>

GetTransitionIntegersKey ==
    /\ m_last' = [op |-> "get_transition_integers_key", arg |-> <<>>,
                  ret |-> [err |-> "none", out |-> get_transition_integers_key(legend)]]
    /\ UNCHANGED <<legendVars, nestingVars, otherVars, transitions, m_calls>>

GetTransitionInitialFinalKey ==
    /\ m_last' = [op |-> "get_transition_initial_final_key", arg |-> <<>>,
                  ret |-> [err |-> "none", out |-> get_transition_initial_final_key(legend)]]
    /\ UNCHANGED <<legendVars, nestingVars, otherVars, transitions, m_calls>>

MatrixNext ==
    \/ GetList
    \/ GetPersistenceList
    \/ GetTransitionIntegersKey
    \/ GetTransitionInitialFinalKey

SpecMatrix == MatrixInit /\ [][MatrixNext]_vars

---------------------------------------------------------------------------
(* Specification of a degradation definition under its mutators: a legend  *)
(* with a complete matrix, then add_update_class and remove_class.         *)

DefClasses == [code : 0..(MaxMatrixCode + 1), name : Names]

\* meaning_str: not given, or a meaning other than the default
MeaningArgs == {None, Some("degradation")}

DefInit ==
    /\ legend \in LegendsOver(1..MaxMatrixCode)
    /\ lc_status = "ok"
    /\ lc_last = NoCall
    /\ transitions \in DefMatrices(legend)
    /\ m_last = NoCall
    /\ m_calls = 0
    /\ NestingIdle
    /\ OtherIdle

DefAddUpdateClass ==
    /\ m_calls < MaxEdits
    /\ \E lcc \in DefClasses, meaning_str \in MeaningArgs :
          LET r == LCTransitionDefinitionDeg_add_update_class(legend, transitions,
                                                              lcc, meaning_str)
          IN /\ legend' = r.legend
             /\ transitions' = r.transitions
             /\ m_last' = [op |-> "add_update_class", arg |-> <<lcc, meaning_str>>,
                           ret |-> "none"]
    /\ m_calls' = m_calls + 1
    /\ UNCHANGED <<lc_status, lc_last, nestingVars, otherVars>>

DefRemoveClass ==
    /\ m_calls < MaxEdits
    /\ \E lcc \in DefClasses :
          LET r == LCTransitionDefinitionDeg_remove_class(legend, transitions, lcc)
          IN /\ legend' = r.legend
             /\ transitions' = r.transitions
             /\ m_last' = [op |-> "remove_class", arg |-> <<lcc>>, ret |-> r.ret]
    /\ m_calls' = m_calls + 1
    /\ UNCHANGED <<lc_status, lc_last, nestingVars, otherVars>>

DefNext == DefAddUpdateClass \/ DefRemoveClass

SpecDef == DefInit /\ [][DefNext]_vars

---------------------------------------------------------------------------
(* Specification of the error-recode tables: the recode values of a        *)
(* feature are looked up in the dict, and a code is looked up in the lists. *)

\* the properties the validators of ErrorRecodeProperties accept
RecodeProps ==
    [recode_deg_to : Range(recode_deg_to_options),
     recode_stable_to : Range(recode_stable_to_options),
     recode_imp_to : Range(recode_imp_to_options)]

RecodeInit ==
    /\ props \in RecodeProps
    /\ r_last = NoCall
    /\ ResultsIdle
    /\ DefinitionsIdle
    /\ LegendIdle
    /\ NestingIdle
    /\ MatrixIdle

\* recode_to_trans_code_dict[(recode_deg_to, recode_stable_to, recode_imp_to)]
RecodeToTransCode ==
    /\ LET key == <<props.recode_deg_to, props.recode_stable_to, props.recode_imp_to>>
       IN r_last' = [op |-> "recode_to_trans_code_dict", arg |-> key,
                     ret |-> DictGet(recode_to_trans_code_dict, key)]
    /\ UNCHANGED <<props, legendVars, nestingVars, matrixVars, resultsVars,
                   definitionsVars>>

\* the entries of the four lists of trans_code_lists at one position
TransCodeLists ==
    /\ \E pos \in 1..Len(trans_code_lists[1]) :
          r_last' = [op |-> "trans_code_lists", arg |-> pos - 1,
                     ret |-> << trans_code_lists[1][pos], trans_code_lists[2][pos],
                                trans_code_lists[3][pos], trans_code_lists[4][pos] >>]
    /\ UNCHANGED <<props, legendVars, nestingVars, matrixVars, resultsVars,
                   definitionsVars>>

RecodeNext == RecodeToTransCode \/ TransCodeLists

SpecRecode == RecodeInit /\ [][RecodeNext]_vars

---------------------------------------------------------------------------
(* Specification of the lookups by code on a constructed legend, between   *)
(* calls of add_update_class and remove_class.                             *)

LookupInit ==
    /\ \E l \in [key : SeqUpTo(Classes, MaxLen), nodata : NoDataOptions] :
          /\ ~LCLegend_post_init(l).err
          /\ legend = LCLegend_post_init(l).legend
    /\ lc_status = "ok"
    /\ lc_last = NoCall
    /\ NestingIdle
    /\ MatrixIdle
    /\ OtherIdle

\* legend.classByCode(code)
LookupClassByCode ==
    /\ \E code \in Codes :
          LET out == classByCode(legend, code)
          IN lc_last' = [op |-> "classByCode", arg |-> <<code>>,
                         ret |-> [err |-> IF out = None THEN "KeyError" ELSE "none",
                                  out |-> out]]
    /\ UNCHANGED <<legend, lc_status, nestingVars, otherVars, matrixVars>>

\* legend.class_by_code(code)
LookupClass_by_code ==
    /\ \E code \in Codes :
          lc_last' = [op |-> "class_by_code", arg |-> <<code>>,
                      ret |-> [err |-> "none", out |-> class_by_code(legend, code)]]
    /\ UNCHANGED <<legend, lc_status, nestingVars, otherVars, matrixVars>>

LookupNext ==
    \/ AddUpdateClass
    \/ RemoveClass
    \/ LookupClassByCode
    \/ LookupClass_by_code

SpecLookup == LookupInit /\ [][LookupNext]_vars

---------------------------------------------------------------------------
(* Specification of the queries on a nesting that has passed the           *)
(* validation of its construction.                                         *)

NestParentForChild ==
    /\ n_status = "ok"
    /\ \E c \in NestClasses :
          n_last' = [op |-> "parent_for_child", arg |-> <<c>>,
                     ret |-> [err |-> "none", out |-> parent_for_child(NestingSelf, c)]]
    /\ UNCHANGED <<parent, child, nesting, n_status, n_calls,
                   legendVars, matrixVars, otherVars>>

NestParentClassForChild ==
    /\ n_status = "ok"
    /\ \E c \in NestClasses :
          LET out == parentClassForChild(NestingSelf, c)
          IN n_last' = [op |-> "parentClassForChild", arg |-> <<c>>,
                        ret |-> [err |-> IF out = None THEN "KeyError" ELSE "none",
                                 out |-> out]]
    /\ UNCHANGED <<parent, child, nesting, n_status, n_calls,
                   legendVars, matrixVars, otherVars>>

NestOrphanChildren ==
    /\ n_status = "ok"
    /\ n_last' = [op |-> "orphan_children", arg |-> <<>>,
                  ret |-> [err |-> "none", out |-> orphan_children(NestingSelf)]]
    /\ UNCHANGED <<parent, child, nesting, n_status, n_calls,
                   legendVars, matrixVars, otherVars>>

NestQueryNext == NestParentForChild \/ NestParentClassForChild \/ NestOrphanChildren

SpecNestQuery == NestingInit /\ [][NestQueryNext]_vars

---------------------------------------------------------------------------
(* Specification of the ResultsField: a value, one result or a list of up  *)
(* to MaxResults results, is deserialized.                                 *)

\* the type strings of the dicts: those of ResultType, the discriminator of
\* analysis.AnalysisResults, and one no class has
TypeStrings == ResultType \cup {"AnalysisResults", "Unknown"}

ResultDicts ==
    [kind : {"dict"}, type : {None} \cup {Some(t) : t \in TypeStrings}, name : {"a"}]

TypedResults == [kind : {"object"}, class : {"RasterResults", "EmptyResults"}, name : {"a"}]

ResultValues == {NoneValue} \cup ResultDicts \cup TypedResults

ResultsInit ==
    /\ \/ rf_value \in [isList : {TRUE}, items : SeqUpTo(ResultValues, MaxResults)]
       \/ rf_value \in [isList : {FALSE}, items : {<<v>> : v \in ResultValues}]
    /\ rf_last = NoCall
    /\ LegendIdle
    /\ NestingIdle
    /\ MatrixIdle
    /\ RecodeIdle
    /\ DefinitionsIdle

ResultsDeserialize ==
    /\ rf_last' = [op |-> "_deserialize", arg |-> rf_value, ret |-> _deserialize(rf_value)]
    /\ UNCHANGED <<rf_value, legendVars, nestingVars, matrixVars, recodeVars,
                   definitionsVars>>

ResultsNext == ResultsDeserialize

SpecResults == ResultsInit /\ [][ResultsNext]_vars

---------------------------------------------------------------------------
(* Specification of the flattening of a nesting: get_list is called on a   *)
(* validated nesting and after remove_parent_class and update_parent.      *)

NestGetList ==
    /\ n_status = "ok"
    /\ n_last' = [op |-> "get_list", arg |-> <<>>,
                  ret |-> [err |-> "none", out |-> LCLegendNesting_get_list(NestingSelf)]]
    /\ UNCHANGED <<parent, child, nesting, n_status, n_calls,
                   legendVars, matrixVars, otherVars>>

NestListNext == NestGetList \/ NestRemoveParentClass \/ NestUpdateParent

SpecNestList == NestingInit /\ [][NestListNext]_vars

---------------------------------------------------------------------------
(* Specification of add_update_parent on a validated nesting: the children *)
(* are None, an empty list or a list of up to MaxChildren classes.         *)

NestAddUpdateParent ==
    /\ n_status = "ok"
    /\ n_calls = 0
    /\ n_calls' = n_calls + 1
    /\ \E parent_lcc \in NestClasses,
          children \in {None} \cup {Some(cs) : cs \in SeqUpTo(NestClasses, MaxChildren)} :
          LET r == LCLegendNesting_add_update_parent(NestingSelf, parent_lcc, children)
          IN /\ parent' = r.parent
             /\ child' = r.child
             /\ nesting' = r.nesting
             /\ n_last' = [op |-> "add_update_parent",
                           arg |-> <<parent_lcc, children>>, ret |-> "None"]
    /\ UNCHANGED <<n_status, legendVars, matrixVars, otherVars>>

NestParentNext == NestAddUpdateParent

SpecNestParent == NestingInit /\ [][NestParentNext]_vars

---------------------------------------------------------------------------
(* Specification of the lookups of a meaning in a matrix: a legend with a  *)
(* complete matrix is asked for pairs of classes, some of them of codes    *)
(* that the legend does not have.                                          *)

\* the classes asked for: of the codes of the legends and of one more code
MeaningClasses == [code : 1..(MaxMatrixCode + 1), name : {"a"}]

\* matrix.meaningByTransition(initial, final)
MeaningByTransition ==
    /\ \E initial \in MeaningClasses, final \in MeaningClasses :
          m_last' = [op |-> "meaningByTransition", arg |-> <<initial, final>>,
                     ret |-> meaningByTransition(transitions, initial, final)]
    /\ UNCHANGED <<legendVars, nestingVars, otherVars, transitions, m_calls>>

\* matrix.meaning_by_transition(initial, final)
Meaning_by_transition ==
    /\ \E initial \in MeaningClasses, final \in MeaningClasses :
          m_last' = [op |-> "meaning_by_transition", arg |-> <<initial, final>>,
                     ret |-> [err |-> "none",
                              out |-> meaning_by_transition(transitions, initial, final)]]
    /\ UNCHANGED <<legendVars, nestingVars, otherVars, transitions, m_calls>>

MeaningNext == MeaningByTransition \/ Meaning_by_transition

SpecMeaning == DefInit /\ [][MeaningNext]_vars

---------------------------------------------------------------------------
(* Specification of the validation of a transition definition: a legend of *)
(* up to MaxDefClasses classes with a single matrix, with a mapping of up  *)
(* to MaxMatrices named matrices, or with a value of another type; each    *)
(* matrix is complete, lacks one entry or has one entry twice.             *)

MappingLegends ==
    {[key |-> StridedKey(n, stride, FALSE), nodata |-> None] :
        n \in 0..MaxDefClasses, stride \in 1..MaxStride}

MatrixNames == {<<"d">>, <<"l", "c">>, <<"d", "e", "g">>, <<"s", "o", "c">>}

MatrixVariants(l) ==
    LET full == CompleteList(l, TRUE)
    IN {full} \cup {RemoveAt(full, k) : k \in 1..Len(full)}
              \cup {Append(full, full[k]) : k \in 1..Len(full)}

DefinitionsOver(l) ==
    {[kind |-> "dict", items |-> items] :
        items \in {s \in SeqUpTo([k : MatrixNames, v : MatrixVariants(l)], MaxMatrices) :
                      \A i, j \in 1..Len(s) : s[i].k = s[j].k => i = j}}
    \cup {[kind |-> "matrix", items |-> <<[k |-> <<>>, v |-> ts]>>] :
             ts \in MatrixVariants(l)}
    \cup {[kind |-> "other", items |-> <<>>]}

DefinitionsInit ==
    /\ legend \in MappingLegends
    /\ lc_status = "ok"
    /\ lc_last = NoCall
    /\ definitions \in DefinitionsOver(legend)
    /\ v_last = NoCall
    /\ NestingIdle
    /\ MatrixIdle
    /\ RecodeIdle
    /\ ResultsIdle

ValidateTransitions ==
    /\ v_last' = [op |-> "validate_transitions", arg |-> <<>>,
                  ret |-> validate_transitions(legend, definitions)]
    /\ UNCHANGED <<definitions, legendVars, nestingVars, matrixVars,
                   recodeVars, resultsVars>>

DefinitionsNext == ValidateTransitions

SpecDefinitions == DefinitionsInit /\ [][DefinitionsNext]_vars

---------------------------------------------------------------------------
(* Specification of the persistence table: a constructed legend of         *)
(* 1..MaxTableClasses classes whose codes are spaced by 1..MaxStride,      *)
(* given in ascending or descending order, with or without a nodata class, *)
(* is asked for the table.                                                 *)

PersistenceInit ==
    /\ \E n \in 1..MaxTableClasses, stride \in 1..MaxStride, descending \in BOOLEAN,
          nd \in {None, Some([code |-> 0, name |-> "a"])} :
          legend = LCLegend_post_init([key |-> StridedKey(n, stride, descending),
                                       nodata |-> nd]).legend
    /\ lc_status = "ok"
    /\ lc_last = NoCall
    /\ transitions = <<>>
    /\ m_last = NoCall
    /\ m_calls = 0
    /\ NestingIdle
    /\ OtherIdle

PersistenceNext == GetPersistenceList

SpecPersistence == PersistenceInit /\ [][PersistenceNext]_vars

---------------------------------------------------------------------------
(* Properties of the legend *)

HasDuplicateCode(s) == \E i, j \in 1..Len(s) : i < j /\ s[i].code = s[j].code

StrictlyAscendingByCode(s) == \A i \in 1..(Len(s) - 1) : s[i].code < s[i + 1].code

AscendingByCode(s) == \A i \in 1..(Len(s) - 1) : s[i].code <= s[i + 1].code

\* the same classes, each as often
SameClasses(s, t) ==
    /\ Len(s) = Len(t)
    /\ \A x \in Range(s) \cup Range(t) :
          Cardinality({i \in 1..Len(s) : s[i] = x})
              = Cardinality({i \in 1..Len(t) : t[i] = x})

\* C1: constructing a legend whose key has two classes of one code fails with
\* a ValidationError; with pairwise distinct codes it succeeds and key holds
\* the given classes in strictly ascending order of code.
C1_ConstructUniqueSorted ==
    lc_last.op = "post_init" =>
        /\ (lc_status = "error") <=> HasDuplicateCode(lc_last.arg)
        /\ (lc_status = "error") <=> (lc_last.ret = "ValidationError")
        /\ (lc_status = "ok") <=> ~HasDuplicateCode(lc_last.arg)
        /\ lc_status = "ok" =>
              /\ StrictlyAscendingByCode(legend.key)
              /\ SameClasses(legend.key, lc_last.arg)

\* a legend constructed from a key given in descending order of code
C1_Witness ==
    /\ lc_last.op = "post_init"
    /\ lc_status = "ok"
    /\ Len(lc_last.arg) >= 2
    /\ lc_last.arg[1].code > lc_last.arg[2].code

\* C2 (as claimed): in every state reached from a constructed legend by
\* add_update_class and remove_class, key is sorted ascending by code.
C2_KeyAlwaysSorted == lc_status = "ok" => AscendingByCode(legend.key)

\* C3: in every state reached from a constructed legend by add_update_class
\* and remove_class, no two classes of key share a code.
C3_KeyCodesUnique == lc_status = "ok" => ~HasDuplicateCode(legend.key)

\* add_update_class has just updated a class that is not the last of key
C3_Witness ==
    /\ lc_status = "ok"
    /\ lc_last.op = "add_update_class"
    /\ Len(legend.key) >= 2
    /\ legend.key[1] = lc_last.arg[1]

\* idx[i] * m + idx[j] takes a different value at every pair (i, j)
PairwiseDistinctCodes(idx, m) ==
    Cardinality({idx[i] * m + idx[j] : i, j \in DOMAIN idx})
        = Cardinality(DOMAIN idx) * Cardinality(DOMAIN idx)

\* C8: for a legend of n >= 1 classes the transition codes
\* class_index(i) * get_multiplier() + class_index(j) of the n * n ordered
\* pairs of classes of key are pairwise distinct.
C8_TransitionCodesDistinct ==
    (lc_status = "ok" /\ Len(legend.key) >= 1) =>
        PairwiseDistinctCodes([i \in 1..Len(legend.key) |->
                                  class_index(legend, legend.key[i])],
                              get_multiplier(legend))

\* a legend of 11 classes or more, whose key is not in ascending order
C8_Witness ==
    /\ lc_status = "ok"
    /\ Len(legend.key) >= 11
    /\ ~AscendingByCode(legend.key)

\* C19: for a legend of n >= 1 classes get_multiplier() returns the smallest
\* power of ten that is >= n: 1 for n = 1, 10 for n in 2..10, 100 for n in
\* 11..100; for legends of at most 38 classes it never exceeds 100.
C19_MultiplierSmallestPowerOfTen ==
    (lc_last.op = "get_multiplier" /\ Len(legend.key) >= 1) =>
        LET n == Len(legend.key)
            mult == lc_last.ret.out
        IN /\ lc_last.ret.err = "none"
           /\ \E k \in 0..3 : mult = 10 ^ k
           /\ mult >= n
           /\ \A k \in 0..3 : 10 ^ k >= n => mult <= 10 ^ k
           /\ n = 1 => mult = 1
           /\ n \in 2..10 => mult = 10
           /\ n \in 11..100 => mult = 100
           /\ n <= 38 => mult <= 100

\* get_multiplier() has returned 10 for a legend of 10 classes
C19_Witness ==
    /\ lc_last.op = "get_multiplier"
    /\ Len(legend.key) = 10
    /\ lc_last.ret.out = 10

\* C24: add_update_class(lcc) leaves exactly one class with lcc's code in
\* key, equal to lcc, and the same call made again leaves the legend as it
\* is; remove_class(code) made again after remove_class(code) returns False
\* and leaves the legend as it is; remove_class of a code that no class of
\* key has returns False and leaves key unchanged.
C24_MutationIdempotentByCode ==
    [][/\ lc_last'.op = "add_update_class" =>
            LET lcc == lc_last'.arg[1]
            IN /\ Cardinality({i \in 1..Len(legend'.key) :
                                  legend'.key[i].code = lcc.code}) = 1
               /\ ListHas(legend'.key, lcc)
               /\ LCLegend_add_update_class(legend', lcc) = legend'
               /\ (lc_last.op = "add_update_class" /\ lc_last.arg = lc_last'.arg)
                     => legend' = legend
       /\ lc_last'.op = "remove_class" =>
            LET code == lc_last'.arg[1]
            IN /\ LCLegend_remove_class(legend', code) = [ret |-> FALSE, legend |-> legend']
               /\ (lc_last.op = "remove_class" /\ lc_last.arg = lc_last'.arg)
                     => (lc_last'.ret = "False" /\ legend' = legend)
               /\ ~ListHas(CodesOf(legend.key), code)
                     => (lc_last'.ret = "False" /\ legend'.key = legend.key)]_vars

\* add_update_class has updated a class of a legend of two classes with new
\* attributes
C24_Witness ==
    /\ lc_last.op = "add_update_class"
    /\ Len(legend.key) = 2
    /\ legend.key[1] = lc_last.arg[1]
    /\ legend.key[1].name # legend.key[2].name

\* the number of decimal digits of k >= 1
DecimalDigits(k) == CHOOSE d \in 1..4 : 10 ^ (d - 1) <= k /\ k < 10 ^ d

\* int(str(a) + str(b))
ConcatDecimal(a, b) == a * 10 ^ DecimalDigits(b) + b

CodesAreConcatenations(idx, mult) ==
    \A i, j \in DOMAIN idx :
        idx[i] * mult + idx[j] = ConcatDecimal(idx[i], idx[j])

\* C25: for a legend of 1..38 classes and every ordered pair of its classes
\* the transition code class_index(initial) * get_multiplier() +
\* class_index(final) is the number written by the decimal digits of the
\* initial ordinal followed by those of the final ordinal.
C25_TransitionCodeIsConcatenation ==
    (lc_status = "ok" /\ Len(legend.key) >= 1 /\ Len(legend.key) <= 38) =>
        CodesAreConcatenations([i \in 1..Len(legend.key) |->
                                   class_index(legend, legend.key[i])],
                               get_multiplier(legend))

---------------------------------------------------------------------------
(* Properties of the nesting *)

CountIn(s, x) == Cardinality({i \in 1..Len(s) : s[i] = x})

\* the partition invariant (a)-(c): the nesting keys are the parent legend's
\* codes, and the child codes listed are the child legend's codes, each once
PartitionInvariant(p, c, n) ==
    /\ Range(DictKeys(n)) = Range(codes(p))
    /\ \A x \in Range(codes(c)) : CountIn(DictValuesFlat(n), x) = 1
    /\ Range(DictValuesFlat(n)) \subseteq Range(codes(c))

\* the nodata class's code is not the code of a class of key
NodataCodeFresh(l) ==
    l.nodata = None \/ \A i \in 1..Len(l.key) : l.key[i].code # l.nodata[1].code

\* C4 (as claimed): constructing a nesting succeeds if and only if the
\* nesting keys are the parent legend's codes and the child codes listed are
\* the child legend's codes, each exactly once.
C4_ConstructIffPartition ==
    n_last.op = "post_init" =>
        ((n_status = "ok") <=> PartitionInvariant(parent, child, nesting))

\* C4 (amended): constructing a nesting succeeds if and only if the nesting
\* is such a partition and in neither legend the nodata class's code is also
\* the code of a class of key; otherwise it fails with a ValidationError.
C4_ConstructIffPartitionFreshNodata ==
    n_last.op = "post_init" =>
        /\ (n_status = "ok") <=>
              /\ PartitionInvariant(parent, child, nesting)
              /\ NodataCodeFresh(parent)
              /\ NodataCodeFresh(child)
        /\ (n_status = "error") <=> (n_last.ret = "ValidationError")
        /\ n_status \in {"ok", "error"}

\* a nesting with two non-empty buckets, one of them the nodata bucket, has
\* been constructed
C4_Witness ==
    /\ n_last.op = "post_init"
    /\ n_status = "ok"
    /\ Len(nesting) >= 2
    /\ \A i \in 1..Len(nesting) : nesting[i].v # <<>>

\* C5 (as claimed): after every call of add_update_children,
\* remove_parent_class or update_parent that returns, the partition
\* invariant holds.
C5_PartitionAfterEveryCall ==
    (/\ n_status = "ok"
     /\ n_last.op \in {"add_update_children", "remove_parent_class", "update_parent"}
     /\ n_last.ret \in {"True", "False", "none"})
        => PartitionInvariant(parent, child, nesting)

\* the buckets other than k's that list the code x
OtherBucketsWith(n, k, x) == {i \in 1..Len(n) : n[i].k # k /\ ListHas(n[i].v, x)}

\* C6 (as claimed): when add_update_children returns True on a nesting that
\* satisfies the partition invariant, every given child's code is in
\* parent_lcc's bucket and in no other, no child code is listed twice, and
\* every given child other than the child legend's nodata class is in the
\* child legend.
C6_ChildrenMovedToParent ==
    [][(/\ PartitionInvariant(parent, child, nesting)
        /\ n_last'.op = "add_update_children"
        /\ n_last'.ret = "True")
         => LET children == n_last'.arg[1]
                parent_lcc == n_last'.arg[2]
            IN /\ \A i \in 1..Len(children) :
                     /\ DictHas(nesting', parent_lcc.code)
                     /\ ListHas(DictGet(nesting', parent_lcc.code), children[i].code)
                     /\ OtherBucketsWith(nesting', parent_lcc.code,
                                         children[i].code) = {}
                     /\ (child'.nodata = None
                            \/ children[i].code # child'.nodata[1].code)
                          => contains_key(child', children[i].code)
               /\ AllDistinct(DictValuesFlat(nesting'))]_vars

\* C21: from a validated nesting, remove_parent_class(p) with p.code a code
\* of the parent legend's key returns True, removes p from the parent legend,
\* deletes p's bucket and leaves every other bucket and the child legend
\* unchanged, and orphan_children() afterwards is exactly the set of classes
\* of the child legend's key whose codes were in p's bucket; with p.code not
\* in the parent legend it returns False and changes nothing.
C21_RemoveParentOrphansItsChildren ==
    [][(/\ n_last'.op = "remove_parent_class"
        /\ n_calls' = n_calls + 1
        /\ ~LCLegendNesting_post_init(NestingSelf))
         => LET p == n_last'.arg[1]
                after == [parent |-> parent', child |-> child', nesting |-> nesting']
            IN IF ListHas(CodesOf(parent.key), p.code)
               THEN /\ n_last'.ret = "True"
                    /\ ~ListHas(codes(parent'), p.code)
                    /\ parent'.nodata = parent.nodata
                    /\ ~DictHas(nesting', p.code)
                    /\ \A i \in 1..Len(nesting) :
                          nesting[i].k # p.code =>
                              /\ DictHas(nesting', nesting[i].k)
                              /\ DictGet(nesting', nesting[i].k) = nesting[i].v
                    /\ child' = child
                    /\ Range(orphan_children(after)) =
                          {c \in Range(child.key) :
                              ListHas(DictGet(nesting, p.code), c.code)}
               ELSE /\ n_last'.ret = "False"
                    /\ parent' = parent
                    /\ child' = child
                    /\ nesting' = nesting]_vars

\* C22: add_update_children(children, parent_lcc) with parent_lcc.code not a
\* code of the parent legend's key returns False and leaves the parent
\* legend, the child legend and the nesting unchanged.
C22_AddChildrenUnknownParent ==
    [][(/\ n_last'.op = "add_update_children"
        /\ n_calls' = n_calls + 1
        /\ ~ListHas(CodesOf(parent.key), n_last'.arg[2].code))
         => /\ n_last'.ret = "False"
            /\ parent' = parent
            /\ child' = child
            /\ nesting' = nesting]_vars

\* add_update_children has returned False for a class that is not in the
\* parent legend, given a child that no bucket lists and the child legend
\* does not have
C22_Witness ==
    /\ n_last.op = "add_update_children"
    /\ n_last.ret = "False"
    /\ n_calls = 1
    /\ Len(n_last.arg[1]) >= 1
    /\ ~ListHas(codes(parent), n_last.arg[2].code)
    /\ ~ListHas(codes(child), n_last.arg[1][1].code)
    /\ ~ListHas(DictValuesFlat(nesting), n_last.arg[1][1].code)
    /\ ~DictHas(nesting, n_last.arg[2].code)

\* C29: when update_parent(child, new_parent) raises, because the child has
\* no current parent bucket or because new_parent has no bucket, the nesting
\* is exactly as it was before the call.
C29_UpdateParentAllOrNothing ==
    [][(/\ n_last'.op = "update_parent"
        /\ n_calls' = n_calls + 1
        /\ n_last'.ret # "none")
         => nesting' = nesting]_vars

---------------------------------------------------------------------------
(* Properties of the transition matrix and definition *)

\* the number of entries of ts for the ordered pair (c_initial, c_final)
CountEntries(ts, c_initial, c_final) ==
    Cardinality({k \in 1..Len(ts) : ts[k].initial = c_initial /\ ts[k].final = c_final})

\* exactly one entry for every ordered pair of classes of key, n * n in all
CompleteMatrix(l, ts) ==
    /\ \A i, j \in 1..Len(l.key) : CountEntries(ts, l.key[i], l.key[j]) = 1
    /\ Len(ts) = Len(l.key) * Len(l.key)

\* the nodata class is equal to a class of key
NodataInKey(l) == l.nodata # None /\ \E i \in 1..Len(l.key) : l.key[i] = l.nodata[1]

\* C7 (as claimed): transition-matrix validation accepts a list if and only
\* if it has exactly one entry for every ordered pair of classes of
\* legend.key and n * n entries in total.
C7_AcceptsIffComplete ==
    m_last.op = "_validate_matrix" =>
        ((m_last.ret = "none") <=> CompleteMatrix(legend, transitions))

\* C7 (amended): _validate_matrix accepts a list if and only if the list is
\* complete in that sense and the legend's nodata class is not equal to a
\* class of key; te_schemas.validate_matrix accepts exactly the complete
\* lists; both reject with a ValidationError.
C7_AcceptsIffCompleteNoNodataInKey ==
    /\ m_last.op = "_validate_matrix" =>
          /\ (m_last.ret = "none") <=>
                (CompleteMatrix(legend, transitions) /\ ~NodataInKey(legend))
          /\ m_last.ret \in {"none", "ValidationError"}
    /\ m_last.op = "validate_matrix" =>
          /\ (m_last.ret = "none") <=> CompleteMatrix(legend, transitions)
          /\ m_last.ret \in {"none", "ValidationError"}

\* a list with one entry per ordered pair and one further entry that names
\* the nodata class has been rejected
C7_Witness ==
    /\ m_last.op = "_validate_matrix"
    /\ m_last.ret = "ValidationError"
    /\ Len(legend.key) = 2
    /\ legend.nodata # None
    /\ ~NodataInKey(legend)
    /\ \A i, j \in 1..Len(legend.key) :
          CountEntries(transitions, legend.key[i], legend.key[j]) = 1
    /\ Len(transitions) = 5
    /\ transitions[5].initial = legend.nodata[1]

MeaningInt(meaning) ==
    IF meaning = "degradation" THEN -1 ELSE IF meaning = "improvement" THEN 1 ELSE 0

\* the meaning the matrix gives the pair (c_initial, c_final)
MeaningOf(ts, c_initial, c_final) ==
    (CHOOSE t \in Range(ts) : t.initial = c_initial /\ t.final = c_final).meaning

HasMeaning(ts, initialCode, finalCode, meaning) ==
    \E t \in Range(ts) :
        t.initial.code = initialCode /\ t.final.code = finalCode /\ t.meaning = meaning

\* C9: for a validated single-matrix definition get_list() returns two
\* sequences of length n * n; at the position of the pair (c_initial, c_final),
\* counted with c_final in the outer loop and c_initial in the inner loop over
\* legend.key, they hold class_index(c_initial) * multiplier +
\* class_index(c_final) and the integer of the pair's meaning; for the legend
\* {1, 2} with (1,1) stable, (1,2) degradation, (2,1) improvement and (2,2)
\* stable they are [11, 21, 12, 22] and [0, 1, -1, 0].
C9_GetListOrderAndCodes ==
    m_last.op = "get_list" =>
        LET n == Len(legend.key)
            out == m_last.ret.out
        IN /\ m_last.ret.err = "none"
           /\ Len(out) = 2
           /\ Len(out[1]) = n * n
           /\ Len(out[2]) = n * n
           /\ \A f, i \in 1..n :
                 /\ out[1][(f - 1) * n + i] =
                        class_index(legend, legend.key[i]) * get_multiplier(legend)
                            + class_index(legend, legend.key[f])
                 /\ out[2][(f - 1) * n + i] =
                        MeaningInt(MeaningOf(transitions, legend.key[i], legend.key[f]))
           /\ (/\ CodesOf(legend.key) = <<1, 2>>
               /\ HasMeaning(transitions, 1, 1, "stable")
               /\ HasMeaning(transitions, 1, 2, "degradation")
               /\ HasMeaning(transitions, 2, 1, "improvement")
               /\ HasMeaning(transitions, 2, 2, "stable"))
                => out = << <<11, 21, 12, 22>>, <<0, 1, -1, 0>> >>

\* get_list() has returned the table of the two-class scenario
C9_Witness ==
    /\ m_last.op = "get_list"
    /\ CodesOf(legend.key) = <<1, 2>>
    /\ HasMeaning(transitions, 1, 2, "degradation")
    /\ m_last.ret.out = << <<11, 21, 12, 22>>, <<0, 1, -1, 0>> >>

\* C10: get_persistence_list() visits the pairs with c_initial in the outer
\* and c_final in the inner loop; its first sequence holds the full
\* transition code of each pair, its second class_index(c_initial) where
\* c_initial and c_final are the same class and the full code elsewhere; the
\* full codes it lists are the codes get_list() lists.
C10_PersistenceList ==
    m_last.op = "get_persistence_list" =>
        LET n == Len(legend.key)
            out == m_last.ret.out
            full(i, f) == class_index(legend, legend.key[i]) * get_multiplier(legend)
                              + class_index(legend, legend.key[f])
        IN /\ Len(out) = 2
           /\ Len(out[1]) = n * n
           /\ Len(out[2]) = n * n
           /\ \A i, f \in 1..n :
                 /\ out[1][(i - 1) * n + f] = full(i, f)
                 /\ out[2][(i - 1) * n + f] =
                        IF i = f THEN class_index(legend, legend.key[i]) ELSE full(i, f)
           /\ Range(out[1]) = Range(get_list(legend, transitions).out[1])

\* get_persistence_list() has returned the table of a two-class legend
C10_Witness ==
    /\ m_last.op = "get_persistence_list"
    /\ Len(legend.key) = 2
    /\ m_last.ret.out = << <<11, 12, 21, 22>>, <<1, 12, 21, 2>> >>

EntriesWithout(ts, lcc) ==
    SelectSeq(ts, LAMBDA t : t.initial.code # lcc.code /\ t.final.code # lcc.code)

\* C12: after LCTransitionDefinitionDeg.remove_class(lcc) on a definition
\* whose matrix is complete, the matrix holds exactly the entries whose
\* initial and final codes both differ from lcc.code, lcc.code is no longer
\* a code of the legend's key, and the call returns True only if the legend
\* removal and the matrix removal both succeeded.
C12_RemoveClassRemovesOnlyReferencing ==
    [][(m_last'.op = "remove_class" /\ m_calls' = m_calls + 1
            /\ CompleteMatrix(legend, transitions))
        => LET lcc == m_last'.arg[1]
           IN /\ transitions' = EntriesWithout(transitions, lcc)
              /\ ~contains_key(legend', lcc.code)
              /\ m_last'.ret = TRUE =>
                    /\ contains_key(legend, lcc.code)
                    /\ Len(transitions') < Len(transitions)]_vars

\* C13: after LCTransitionDefinitionDeg.add_update_class(lcc, meaning_str) on
\* a definition whose matrix is complete for its legend of n classes, with
\* lcc.code not a code of the legend's key, the matrix is complete for the enlarged
\* legend ((n + 1) * (n + 1) entries, one per ordered pair), every entry that
\* names the new class has the meaning meaning_str ("stable" when not given),
\* and every earlier entry is still there with its meaning.
C13_AddClassKeepsMatrixComplete ==
    [][(m_last'.op = "add_update_class" /\ m_calls' = m_calls + 1
            /\ CompleteMatrix(legend, transitions)
            /\ ~ListHas(CodesOf(legend.key), m_last'.arg[1].code))
        => LET lcc == m_last'.arg[1]
               str == IF m_last'.arg[2] = None THEN "stable" ELSE m_last'.arg[2][1]
               n == Len(legend.key)
           IN /\ Len(legend'.key) = n + 1
              /\ ListHas(legend'.key, lcc)
              /\ CompleteMatrix(legend', transitions')
              /\ Len(transitions') = (n + 1) * (n + 1)
              /\ \A k \in 1..Len(transitions') :
                    (transitions'[k].initial.code = lcc.code
                        \/ transitions'[k].final.code = lcc.code)
                    => transitions'[k].meaning = str
              /\ \A k \in 1..Len(transitions) : ListHas(transitions', transitions[k])]_vars

\* a class has been added with the meaning "degradation" to a legend of two
\* classes with a complete matrix, which now has nine entries
C13_Witness ==
    /\ m_last.op = "add_update_class"
    /\ m_calls = 1
    /\ m_last.arg[2] = Some("degradation")
    /\ Len(legend.key) = 3
    /\ Len(transitions) = 9
    /\ CompleteMatrix(legend, transitions)
    /\ \E k \in 1..9 : transitions[k].initial = m_last.arg[1]
                        /\ transitions[k].final = m_last.arg[1]
                        /\ transitions[k].meaning = "degradation"

---------------------------------------------------------------------------
(* Properties of the error-recode tables *)

\* the representation of a key component in the lists
ListValueOf(x) == IF x = None THEN -9999 ELSE x[1]

\* C14: the two ErrorRecodePolygons lookups agree: for every key (d, s, i) of
\* recode_to_trans_code_dict with value c, position c of trans_code_lists
\* holds the code c and the targets (d, s, i), a None component being
\* represented by -9999 and never by -32768; every position of the lists is
\* the value of such a key.
C14_RecodeTablesAgree ==
    /\ r_last.op = "recode_to_trans_code_dict" =>
          LET c == r_last.ret
              key == r_last.arg
          IN /\ c + 1 \in 1..Len(trans_code_lists[1])
             /\ trans_code_lists[1][c + 1] = c
             /\ \A a \in 1..3 :
                   /\ trans_code_lists[a + 1][c + 1] = ListValueOf(key[a])
                   /\ key[a] = None => trans_code_lists[a + 1][c + 1] # -32768
    /\ r_last.op = "trans_code_lists" =>
          /\ r_last.ret[1] = r_last.arg
          /\ \E e \in Range(recode_to_trans_code_dict) :
                /\ e.v = r_last.arg
                /\ \A a \in 1..3 : r_last.ret[a + 1] = ListValueOf(e.k[a])

\* the key (None, -32768, -1) has been looked up: its code is 6, and
\* position 6 of the lists holds (6, -9999, -32768, -1)
C14_Witness ==
    /\ r_last.op = "recode_to_trans_code_dict"
    /\ r_last.arg = <<None, Some(-32768), Some(-1)>>
    /\ r_last.ret = 6
    /\ trans_code_lists[2][7] = -9999
    /\ trans_code_lists[3][7] = -32768
    /\ trans_code_lists[4][7] = -1

\* the 0-based position of x in the option tuple s
OptionIndex(s, x) == (CHOOSE a \in 1..Len(s) : s[a] = x) - 1

\* C15: the error-recode enumeration gives the 64 option triples the codes
\* 0..63 without gap or repeat, degraded option outermost, stable in the
\* middle, improved innermost: the triple at the option indices (a, b, c) has
\* the code 16 * a + 4 * b + c, and the dict has 64 distinct keys.
C15_RecodeEnumeration ==
    /\ r_last.op = "recode_to_trans_code_dict" =>
          /\ r_last.ret = 16 * OptionIndex(recode_deg_to_options, r_last.arg[1])
                            + 4 * OptionIndex(recode_stable_to_options, r_last.arg[2])
                            + OptionIndex(recode_imp_to_options, r_last.arg[3])
          /\ Len(recode_to_trans_code_dict) = 64
          /\ Cardinality(Range(DictKeys(recode_to_trans_code_dict))) = 64
          /\ {e.v : e \in Range(recode_to_trans_code_dict)} = 0..63
    /\ r_last.op = "trans_code_lists" =>
          /\ Len(trans_code_lists[1]) = 64
          /\ r_last.arg \in 0..63
          /\ r_last.ret[1] = r_last.arg
          /\ r_last.ret[2] = ListValueOf(recode_deg_to_options[(r_last.arg \div 16) + 1])
          /\ r_last.ret[3] = ListValueOf(recode_stable_to_options[((r_last.arg \div 4) % 4) + 1])
          /\ r_last.ret[4] = ListValueOf(recode_imp_to_options[(r_last.arg % 4) + 1])

\* the triple (1, None, -1), at the option indices (3, 0, 2), has been looked
\* up and has the code 50
C15_Witness ==
    /\ r_last.op = "recode_to_trans_code_dict"
    /\ r_last.arg = <<Some(1), None, Some(-1)>>
    /\ r_last.ret = 50

---------------------------------------------------------------------------
(* Properties of the lookups *)

\* the classes of key, or the nodata class, with the given code
ClassesWithCode(l, code) ==
    {c \in Range(l.key) \cup (IF l.nodata = None THEN {} ELSE {l.nodata[1]}) :
        c.code = code}

\* C16: classByCode(code) and class_by_code(code) are the same lookup over
\* the classes of the legend, the nodata class included: for a code of key
\* or of the nodata class both return a class with that code, and for any
\* other code classByCode raises KeyError while class_by_code returns None.
C16_LookupsByCodeAgree ==
    (lc_last.op \in {"classByCode", "class_by_code"}) =>
        LET code == lc_last.arg[1]
            found == ClassesWithCode(legend, code)
        IN /\ found # {} =>
                /\ lc_last.ret.err = "none"
                /\ lc_last.ret.out # None
                /\ lc_last.ret.out[1] \in found
           /\ found = {} =>
                /\ lc_last.ret.out = None
                /\ lc_last.ret.err = IF lc_last.op = "classByCode" THEN "KeyError" ELSE "none"

---------------------------------------------------------------------------
(* Properties of the queries on a nesting *)

\* the keys of the buckets of n that list the code
BucketsListing(n, code) == {b.k : b \in {e \in Range(n) : ListHas(e.v, code)}}

\* C17: parent_for_child(c) and parentClassForChild(c) resolve the same
\* parent: when a bucket lists c.code both return the class of the parent
\* legend (its nodata class included) with the key of that bucket, and when
\* no bucket lists c.code parent_for_child returns None while
\* parentClassForChild raises.
C17_ParentLookupsAgree ==
    (n_last.op \in {"parent_for_child", "parentClassForChild"}) =>
        LET c == n_last.arg[1]
            listing == BucketsListing(nesting, c.code)
        IN /\ listing # {} =>
                /\ n_last.ret.err = "none"
                /\ n_last.ret.out # None
                /\ n_last.ret.out[1] \in Range(key_with_nodata(parent))
                /\ n_last.ret.out[1].code \in listing
           /\ listing = {} =>
                /\ n_last.ret.out = None
                /\ n_last.ret.err =
                      IF n_last.op = "parentClassForChild" THEN "KeyError" ELSE "none"

\* C18: for every LCLegendNesting that has just passed the validation of its
\* construction, orphan_children() returns the empty list, also when a child
\* class is nested under the nodata class of the parent legend.
C18_NoOrphansAfterConstruction ==
    n_last.op = "orphan_children" => n_last.ret.out = <<>>

---------------------------------------------------------------------------
(* Properties of the ResultsField *)

\* the result types with a type discriminator, and the class of each
DiscriminatorClass ==
    [t \in ResultType \cup {"AnalysisResults"} |->
        IF t = "TimeSeriesTable" THEN "TimeSeriesTableResult" ELSE t]

\* v is a dict that carries the discriminator of a result type
CarriesDiscriminator(v) ==
    /\ v.kind = "dict"
    /\ v.type # None
    /\ v.type[1] \in DOMAIN DiscriminatorClass

\* out is the typed result object for the dict v
TypedFor(v, out) ==
    /\ out.kind = "object"
    /\ out.class = DiscriminatorClass[v.type[1]]
    /\ out.name = v.name

\* C20: for every result type with a type discriminator (RasterResults,
\* VectorResults, FileResults, JsonResults, TimeSeriesTable, EmptyResults,
\* CloudResults and AnalysisResults) ResultsField deserializes a dict that
\* carries the discriminator into the typed result object and not a raw dict,
\* as a single value and as each element of a list, keeping the order and
\* the length of the list; None deserializes to None.
C20_ResultsFieldDispatch ==
    rf_last.op = "_deserialize" =>
        LET arg == rf_last.arg
            ret == rf_last.ret
        IN /\ (~arg.isList /\ arg.items[1] = NoneValue) =>
                (~ret.isList /\ ret.items[1] = NoneValue)
           /\ (~arg.isList /\ CarriesDiscriminator(arg.items[1])) =>
                (~ret.isList /\ TypedFor(arg.items[1], ret.items[1]))
           /\ (arg.isList /\ \A i \in 1..Len(arg.items) : CarriesDiscriminator(arg.items[i])) =>
                /\ ret.isList
                /\ Len(ret.items) = Len(arg.items)
                /\ \A i \in 1..Len(arg.items) : TypedFor(arg.items[i], ret.items[i])

---------------------------------------------------------------------------
(* Properties of the flattening and of add_update_parent *)

RECURSIVE BucketOffset(_, _)
\* the number of child codes in the buckets before bucket b
BucketOffset(d, b) ==
    IF b <= 1 THEN 0 ELSE BucketOffset(d, b - 1) + Len(d[b - 1].v)

TotalChildCodes(d) == BucketOffset(d, Len(d) + 1)

\* C23: get_list() returns two sequences whose length is the total number
\* of child codes in the nesting; the buckets are laid out one after another
\* in the order of the dict, the first sequence holding the child code and
\* the second the key of its bucket at the same position; for a validated
\* nesting the first sequence lists every code of the child legend exactly
\* once.
C23_NestingGetList ==
    n_last.op = "get_list" =>
        LET out == n_last.ret.out
        IN /\ Len(out) = 2
           /\ Len(out[1]) = TotalChildCodes(nesting)
           /\ Len(out[2]) = TotalChildCodes(nesting)
           /\ \A b \in 1..Len(nesting) : \A j \in 1..Len(nesting[b].v) :
                 /\ out[1][BucketOffset(nesting, b) + j] = nesting[b].v[j]
                 /\ out[2][BucketOffset(nesting, b) + j] = nesting[b].k
           /\ ~LCLegendNesting_post_init(NestingSelf) =>
                 /\ Range(out[1]) = Range(codes(child))
                 /\ AllDistinct(out[1])

\* get_list has flattened a nesting of two non-empty buckets, one of them
\* with two child codes
C23_Witness ==
    /\ n_last.op = "get_list"
    /\ Len(n_last.ret.out[1]) = 3
    /\ \E a, b \in 1..Len(nesting) :
          /\ a < b
          /\ Len(nesting[a].v) = 2
          /\ Len(nesting[b].v) = 1

\* C30: after add_update_parent(parent_lcc, children) on a validated nesting,
\* with children None, empty or non-empty, the set of the nesting's keys
\* equals the set of the parent legend's codes.
C30_AddParentKeepsKeys ==
    (n_last.op = "add_update_parent" /\ n_calls = 1) =>
        Range(DictKeys(nesting)) = Range(codes(parent))

---------------------------------------------------------------------------
(* Properties of the lookups of a meaning *)

NoEntryFor(ts, initial, final) ==
    \A i \in 1..Len(ts) :
        ~(ts[i].initial.code = initial.code /\ ts[i].final.code = final.code)

\* C26: on a matrix with no entry for the pair (initial, final),
\* meaning_by_transition(initial, final) returns None without raising and
\* meaningByTransition(initial, final) raises KeyError.
C26_MeaningLookupMiss ==
    /\ (/\ m_last.op = "meaning_by_transition"
        /\ NoEntryFor(transitions, m_last.arg[1], m_last.arg[2]))
          => (m_last.ret.err = "none" /\ m_last.ret.out = None)
    /\ (/\ m_last.op = "meaningByTransition"
        /\ NoEntryFor(transitions, m_last.arg[1], m_last.arg[2]))
          => m_last.ret.err = "KeyError"

---------------------------------------------------------------------------
(* Properties of the validation of a definition *)

\* C27: validating a definition whose definitions is a mapping of named
\* matrices over one legend accepts it when every matrix of the mapping has
\* exactly one entry per ordered pair of classes, and rejects it with a
\* ValidationError when some matrix lacks an entry or has one twice.
C27_MappingValidatesEveryMatrix ==
    (/\ v_last.op = "validate_transitions"
     /\ definitions.kind = "dict"
     /\ Len(definitions.items) >= 1)
       => IF \A i \in 1..Len(definitions.items) :
                CompleteMatrix(legend, definitions.items[i].v)
          THEN v_last.ret = "none"
          ELSE v_last.ret = "ValidationError"

---------------------------------------------------------------------------
(* Properties of the persistence table *)

\* the positions of the table that hold a pair of one class
DiagonalPositions(n) == {(i - 1) * n + i : i \in 1..n}

NoCollisionInPersistence(second, n) ==
    /\ {second[k] : k \in DiagonalPositions(n)} = 1..n
    /\ \A k, m \in 1..(n * n) : second[k] = second[m] => k = m

\* C28: in the second sequence of get_persistence_list() of a legend of
\* n >= 1 classes no two transitions have the same value: the values of the
\* n pairs of one class are 1..n, pairwise distinct, and differ from the
\* full transition code of every pair of two different classes.
C28_PersistenceValuesDistinct ==
    (m_last.op = "get_persistence_list" /\ Len(legend.key) >= 1) =>
        NoCollisionInPersistence(m_last.ret.out[2], Len(legend.key))

\* the table of a legend of ten classes, where the multiplier equals the
\* number of classes
C28_Witness ==
    /\ m_last.op = "get_persistence_list"
    /\ Len(legend.key) = 10
    /\ Len(m_last.ret.out[2]) = 100

====
